---- MODULE Spec2Model ----
(***************************************************************************)
(* A model of the S-expression library: the canonical printer of           *)
(* sexp.printer, the loads/dumps pair of sexp.parser and the recursive     *)
(* descent SExpressionParser of the se and s_expression packages.          *)
(*                                                                         *)
(* A Python str is a sequence of code points, a Python bytes object a      *)
(* sequence of numbers in 0..255.  A value of the tree is a record         *)
(* [k, v]: k names its Python type and v is a sequence (the code points of *)
(* a str, the bytes of a bytes object, the children of a list, the one     *)
(* truth value of a bool).                                                 *)
(***************************************************************************)
EXTENDS Integers, Sequences, FiniteSets, TLC

(***************************************************************************)
(* The state.  Each of the three programs is checked under a specification *)
(* of its own, in which the variables of the other two stay idle.          *)
(***************************************************************************)
VARIABLES
    \* sexp.printer: the two trees handed to dumps_canonical, what it
    \* returned for each and whether it has been called.
    node, other, out, out_other, ppc,
    \* and of dumps_advanced: its settings and what it returned for node.
    settings, out_adv,
    \* SExpressionParser: the package it comes from, the constructor's
    \* argument, self.text, self.index, the calls in progress (a frame per
    \* unfinished _parse_list, _parse_quoted_expression and
    \* _parse_quoted_string, with what it has collected), the statement the
    \* parser is at, the value being returned and the exception raised.
    variant, input, text, index, stack, pc, val, err,
    \* sexp.parser: the tree handed to dumps and its advanced flag, the str
    \* handed to loads, what loads returned or raised, what dumps returned
    \* for the tree loads returned, and the call that comes next.
    obj, advanced, dumped, dump_err, loaded, redumped, lpc,
    \* check_balanced_parentheses: its argument s, what it returned, and
    \* whether it has been called.
    cbp_s, cbp_ret, cbp_pc,
    \* parse_sexpressions_from_file: the list sexpressions, and whether the
    \* parser is the one of a call of this function.
    sexpressions, fpc,
    \* sexp._backend.iterparse: whether sexp._native was imported, the
    \* settings argument (<<>> for None), the chunks of the source and how
    \* many of them have been fed, the offset up to which the buffer is
    \* consumed, the values yielded, the signal of the last feed, the
    \* exception raised, and where the call is.
    native_ok, it_settings, chunks, fed, consumed, yielded, signal, it_err, ipc

pvars == <<node, other, out, out_other, ppc, settings, out_adv>>

svars == <<variant, input, text, index, stack, pc, val, err>>

lvars == <<obj, advanced, dumped, dump_err, loaded, redumped, lpc>>

bvars == <<cbp_s, cbp_ret, cbp_pc>>

fvars == <<sexpressions, fpc>>

ivars ==
    <<native_ok, it_settings, chunks, fed, consumed, yielded, signal, it_err, ipc>>

xvars == <<bvars, fvars, ivars>>

vars == <<pvars, svars, lvars, xvars>>

(***************************************************************************)
(* Characters the code names in its literals.                              *)
(***************************************************************************)
LPAREN == 40
RPAREN == 41
COLON == 58
SPACE == 32
DQUOTE == 34
BACKSLASH == 92
SEMICOLON == 59
HASH == 35
PIPE == 124
QUOTE == 39
NEWLINE == 10
CR == 13
TAB == 9

(***************************************************************************)
(* Bounds of the model.                                                    *)
(***************************************************************************)
MaxAtomLen == 1
MaxItems == 2
MaxDepth == 2

(***************************************************************************)
(* Python built-ins the code calls.                                        *)
(***************************************************************************)

\* str.encode("utf-8") of one code point (below U+D800 or above U+DFFF).
Utf8Char(c) ==
    IF c < 128 THEN <<c>>
    ELSE IF c < 2048 THEN <<192 + (c \div 64), 128 + (c % 64)>>
    ELSE IF c < 65536
         THEN <<224 + (c \div 4096), 128 + ((c \div 64) % 64), 128 + (c % 64)>>
    ELSE <<240 + (c \div 262144), 128 + ((c \div 4096) % 64),
           128 + ((c \div 64) % 64), 128 + (c % 64)>>

RECURSIVE Utf8Encode(_)
Utf8Encode(s) ==
    IF s = <<>> THEN <<>> ELSE Utf8Char(Head(s)) \o Utf8Encode(Tail(s))

\* str(n) for n >= 0: the decimal digits of n, as code points.
RECURSIVE StrOfInt(_)
StrOfInt(n) ==
    IF n < 10 THEN <<48 + n>> ELSE StrOfInt(n \div 10) \o <<48 + (n % 10)>>

\* All sequences over S of length at most n.
SeqsUpTo(S, n) == UNION {[1..m -> S] : m \in 0..n}

(***************************************************************************)
(* sexp.types and sexp.printer: the canonical printer.                     *)
(***************************************************************************)

SexpAtom(kind, value) == [k |-> kind, v |-> value]

SexpList(items) == [k |-> "list", v |-> items]

\* The atom branch of _write_canon, given the bytes b of the atom.
CanonAtomRaw(b) == b

CanonAtom(b) == StrOfInt(Len(b)) \o <<COLON>> \o b

RECURSIVE _write_canon(_)
RECURSIVE WriteCanonItems(_, _)
\* The loop of _write_canon over node.items, from the i-th item on.
WriteCanonItems(items, i) ==
    IF i > Len(items) THEN <<>>
    ELSE (IF i > 1 THEN <<SPACE>> ELSE <<>>)
         \o _write_canon(items[i]) \o WriteCanonItems(items, i + 1)

_write_canon(nd) ==
    IF nd.k = "list"
    THEN <<LPAREN>> \o WriteCanonItems(nd.v, 1) \o <<RPAREN>>
    ELSE CanonAtom(IF nd.k = "str" THEN Utf8Encode(nd.v) ELSE nd.v)

dumps_canonical(nd) == _write_canon(nd)

(***************************************************************************)
(* The printer's inputs: trees of text atoms, bytes atoms and lists.       *)
(***************************************************************************)
PrinterChars == {COLON, 233}

PrinterBytes == {<<195, 169>>}

PrinterAtoms ==
    {SexpAtom("str", s) : s \in SeqsUpTo(PrinterChars, MaxAtomLen)}
    \cup {SexpAtom("bytes", b) : b \in PrinterBytes}

RECURSIVE PrinterTrees(_)
PrinterTrees(d) ==
    IF d = 0 THEN PrinterAtoms
    ELSE PrinterAtoms
         \cup {SexpList(items) : items \in SeqsUpTo(PrinterTrees(d - 1), MaxItems)}

\* SexpSettings(): an Optional[int] is the empty sequence where it is None.
DefaultSettings == [pretty_indent |-> <<2>>, prefer_base64_min_len |-> 48]

PrinterInit ==
    /\ node \in PrinterTrees(MaxDepth)
    /\ other \in PrinterTrees(MaxDepth)
    /\ out = <<>>
    /\ out_other = <<>>
    /\ ppc = "start"
    /\ settings = DefaultSettings
    /\ out_adv = <<>>

\* dumps_canonical is called on both trees.
DumpsCanonical ==
    /\ ppc = "start"
    /\ out' = dumps_canonical(node)
    /\ out_other' = dumps_canonical(other)
    /\ ppc' = "done"
    /\ UNCHANGED <<node, other, settings, out_adv>>
    /\ UNCHANGED <<svars, lvars, xvars>>

(***************************************************************************)
(* Claims about the canonical printer.                                     *)
(***************************************************************************)

\* The canonical form as the specification words it: an atom is its decimal
\* byte length, a colon and its bytes; a list is its children's forms between
\* parentheses with no byte between them.
RECURSIVE SeparatorFreeForm(_)
RECURSIVE SeparatorFreeItems(_)
SeparatorFreeItems(items) ==
    IF items = <<>> THEN <<>>
    ELSE SeparatorFreeForm(Head(items)) \o SeparatorFreeItems(Tail(items))

SeparatorFreeForm(n) ==
    IF n.k = "list" THEN <<LPAREN>> \o SeparatorFreeItems(n.v) \o <<RPAREN>>
    ELSE LET b == IF n.k = "str" THEN Utf8Encode(n.v) ELSE n.v
         IN  StrOfInt(Len(b)) \o <<COLON>> \o b

\* C1: dumps_canonical writes every atom as <byte length>:<bytes> and every
\* list as "(" + its children's canonical forms with no separator + ")".
C1_NoSeparator ==
    ppc = "done" => out = SeparatorFreeForm(node)

\* The tree with every text atom replaced by the bytes it stands for: two
\* trees that agree on it have the same shape and the same payloads.
RECURSIVE Payloads(_)
Payloads(n) ==
    IF n.k = "list" THEN SexpList([i \in 1..Len(n.v) |-> Payloads(n.v[i])])
    ELSE SexpAtom("bytes", IF n.k = "str" THEN Utf8Encode(n.v) ELSE n.v)

\* C5: dumps_canonical is injective: two trees that differ in shape or in
\* the bytes of some atom never give the same output.
C5_Injective ==
    (ppc = "done" /\ out = out_other) => Payloads(node) = Payloads(other)

\* Two different trees, a list of one empty atom and the empty list, have
\* been printed, and their outputs differ.
C5_Witness ==
    /\ ppc = "done"
    /\ node = SexpList(<<SexpAtom("str", <<>>)>>)
    /\ other = SexpList(<<>>)
    /\ out # out_other

(***************************************************************************)
(* Python's character classes, exact for code points below 600, and its    *)
(* string operations.  A character the code holds in a variable is a str   *)
(* of length one, or the empty str at the end of the input.                *)
(***************************************************************************)
SpaceChars == (9..13) \cup (28..32) \cup {133, 160}

DigitChars == (48..57) \cup {178, 179, 185}

AsciiDigitChars == 48..57

AlnumChars ==
    (48..57) \cup (65..90) \cup (97..122) \cup {170, 178, 179, 181, 185, 186}
    \cup (188..190) \cup (192..214) \cup (216..246) \cup (248..599)

HexDigitChars == (48..57) \cup (65..70) \cup (97..102)

Base64Alphabet == (65..90) \cup (97..122) \cup (48..57) \cup {43, 47}

Min(a, b) == IF a < b THEN a ELSE b

\* text[a:b] for 0 <= a <= b.
Slice(t, a, b) == SubSeq(t, a + 1, Min(b, Len(t)))

RECURSIVE LStrip(_)
LStrip(s) ==
    IF s # <<>> /\ Head(s) \in SpaceChars THEN LStrip(Tail(s)) ELSE s

RECURSIVE RStrip(_)
RStrip(s) ==
    IF s # <<>> /\ s[Len(s)] \in SpaceChars
    THEN RStrip(SubSeq(s, 1, Len(s) - 1)) ELSE s

\* str.strip()
Strip(s) == RStrip(LStrip(s))

\* int(s) for a non-empty str of ASCII digits.
RECURSIVE IntOf(_)
IntOf(s) ==
    IF s = <<>> THEN 0 ELSE 10 * IntOf(SubSeq(s, 1, Len(s) - 1)) + (s[Len(s)] - 48)

IsAsciiDigits(s) == \A i \in 1..Len(s) : s[i] \in AsciiDigitChars

\* ch in S for a str ch of length at most one and the characters S of a
\* string literal: the empty str is a substring of every string.
InLiteral(ch, S) == ch = <<>> \/ ch[1] \in S

\* ch.isdigit(), ch.isalnum() for a str of length at most one.
StrIsDigit(ch) == ch # <<>> /\ ch[1] \in DigitChars

StrIsAlnum(ch) == ch # <<>> /\ ch[1] \in AlnumChars

HexValue(c) == IF c <= 57 THEN c - 48 ELSE IF c <= 70 THEN c - 55 ELSE c - 87

\* bytes.fromhex(s) for a str of an even number of hex digits.
RECURSIVE FromHex(_)
FromHex(s) ==
    IF Len(s) < 2 THEN <<>>
    ELSE <<16 * HexValue(s[1]) + HexValue(s[2])>> \o FromHex(SubSeq(s, 3, Len(s)))

IsCont(b) == b \in 128..191

\* bytes.decode("utf-8"): [ok, v], v the code points; ok is false where
\* Python raises UnicodeDecodeError.
RECURSIVE Utf8Decode(_)
Utf8Decode(b) ==
    IF b = <<>> THEN [ok |-> TRUE, v |-> <<>>]
    ELSE
    LET b1 == b[1]
        n == IF b1 < 128 THEN 1
             ELSE IF b1 \in 194..223 THEN 2
             ELSE IF b1 \in 224..239 THEN 3
             ELSE IF b1 \in 240..244 THEN 4
             ELSE 0
        wellFormed ==
            /\ n > 0
            /\ Len(b) >= n
            /\ \A i \in 2..n : IsCont(b[i])
            /\ b1 = 224 => b[2] >= 160
            /\ b1 = 237 => b[2] <= 159
            /\ b1 = 240 => b[2] >= 144
            /\ b1 = 244 => b[2] <= 143
        cp == IF n = 1 THEN b1
              ELSE IF n = 2 THEN (b1 - 192) * 64 + (b[2] - 128)
              ELSE IF n = 3
                   THEN (b1 - 224) * 4096 + (b[2] - 128) * 64 + (b[3] - 128)
              ELSE (b1 - 240) * 262144 + (b[2] - 128) * 4096
                   + (b[3] - 128) * 64 + (b[4] - 128)
    IN  IF ~wellFormed THEN [ok |-> FALSE, v |-> <<>>]
        ELSE LET rest == Utf8Decode(SubSeq(b, n + 1, Len(b)))
             IN  IF rest.ok THEN [ok |-> TRUE, v |-> <<cp>> \o rest.v]
                 ELSE rest

Base64Value(c) ==
    IF c \in 65..90 THEN c - 65
    ELSE IF c \in 97..122 THEN c - 71
    ELSE IF c \in 48..57 THEN c + 4
    ELSE IF c = 43 THEN 62
    ELSE 63

\* binascii.a2b_base64 (not strict) from the i-th character of s on, with
\* quad_pos characters of the current group read, leftchar their pending
\* bits and pads the padding characters seen in a row: [ok, v]; ok is false
\* where Python raises binascii.Error.
RECURSIVE A2bBase64(_, _, _, _, _)
A2bBase64(s, i, quad_pos, leftchar, pads) ==
    IF i > Len(s)
    THEN [ok |-> quad_pos = 0, v |-> <<>>]
    ELSE
    LET c == s[i] IN
    IF c = 61
    THEN IF quad_pos >= 2 /\ quad_pos + pads + 1 >= 4
         THEN [ok |-> TRUE, v |-> <<>>]
         ELSE A2bBase64(s, i + 1, quad_pos, leftchar,
                        IF quad_pos >= 2 THEN pads + 1 ELSE pads)
    ELSE IF c \notin Base64Alphabet
    THEN A2bBase64(s, i + 1, quad_pos, leftchar, pads)
    ELSE
    LET x == Base64Value(c)
        emit == IF quad_pos = 1 THEN <<leftchar * 4 + (x \div 16)>>
                ELSE IF quad_pos = 2 THEN <<leftchar * 16 + (x \div 4)>>
                ELSE IF quad_pos = 3 THEN <<leftchar * 64 + x>>
                ELSE <<>>
        left == IF quad_pos = 0 THEN x
                ELSE IF quad_pos = 1 THEN x % 16
                ELSE IF quad_pos = 2 THEN x % 4
                ELSE 0
        rest == A2bBase64(s, i + 1, (quad_pos + 1) % 4, left, 0)
    IN  [ok |-> rest.ok, v |-> emit \o rest.v]

\* base64.b64decode(s)
b64decode(s) == A2bBase64(s, 1, 0, 0, 0)

(***************************************************************************)
(* SExpressionParser (se.parser and s_expression.parser).                  *)
(***************************************************************************)

\* The values parse returns.
Str(s) == [k |-> "str", v |-> s]

Bytes(b) == [k |-> "bytes", v |-> b]

List(items) == [k |-> "list", v |-> items]

Bool(b) == [k |-> "bool", v |-> <<b>>]

None == [k |-> "none", v |-> <<>>]

\* What a method that runs to its end without calling _parse_sexpr does:
\* it returns val or raises err, and leaves self.index at idx.
Returns(value, i) == [ok |-> TRUE, val |-> value, idx |-> i, err |-> ""]

Raises(e, i) == [ok |-> FALSE, val |-> None, idx |-> i, err |-> e]

RECURSIVE _consume_until_newline(_, _)
_consume_until_newline(t, i) ==
    IF i < Len(t) /\ t[i + 1] \notin {NEWLINE, CR}
    THEN _consume_until_newline(t, i + 1)
    ELSE i

\* Not what the code does: a ";" is no whitespace and ends the skipping.
RECURSIVE SkipSpacesOnly(_, _)
SkipSpacesOnly(t, i) ==
    IF i < Len(t) /\ t[i + 1] \in SpaceChars THEN SkipSpacesOnly(t, i + 1) ELSE i

\* The index _skip_whitespace leaves, called at index i.
RECURSIVE _skip_whitespace(_, _)
_skip_whitespace(t, i) ==
    IF i >= Len(t) THEN i
    ELSE IF t[i + 1] \in SpaceChars THEN _skip_whitespace(t, i + 1)
    ELSE IF t[i + 1] = SEMICOLON
         THEN _skip_whitespace(t, _consume_until_newline(t, i))
    ELSE i

\* _peek called at index i: the character it returns and the index it
\* leaves.
_peek(t, i) ==
    LET j == _skip_whitespace(t, i)
    IN  [ch |-> IF j < Len(t) THEN <<t[j + 1]>> ELSE <<>>, idx |-> j]

\* _consume(length) called at index i.
_consume(t, i, length) == [s |-> Slice(t, i, i + length), idx |-> i + length]

\* The index _consume_while leaves, called at index i with a condition
\* that holds of the characters in S.
RECURSIVE _consume_while(_, _, _)
_consume_while(t, i, S) ==
    IF i < Len(t) /\ t[i + 1] \in S THEN _consume_while(t, i + 1, S) ELSE i

_peek_ahead(t, i, offset) ==
    IF i + offset < Len(t) THEN <<t[i + offset + 1]>> ELSE <<>>

\* The characters of the literal "./_*+=-?".
TokenPunctuation == {46, 47, 95, 42, 43, 61, 45, 63}

TokenChars == AlnumChars \cup TokenPunctuation

\* The characters of the literals "><=" and "><=!".
ComparisonStart == {62, 60, 61}

ComparisonChars == {62, 60, 61, 33}

\* Not what the code does: every character begins a token.
AtomDispatchAnyToken(vr, t, i, ch) == "token"

\* The method _parse_atom hands over to ("" where it raises ValueError),
\* by the character _peek returned.
AtomDispatch(vr, t, i, ch) ==
    IF vr = "se"
    THEN IF ch = <<QUOTE>> THEN "quoted_expression"
         ELSE IF StrIsDigit(ch) THEN "number_or_verbatim"
         ELSE IF ch = <<HASH>> THEN "hexadecimal"
         ELSE IF ch = <<PIPE>> THEN "base64"
         ELSE IF StrIsAlnum(ch) \/ InLiteral(ch, TokenPunctuation) THEN "token"
         ELSE IF ch = <<DQUOTE>> THEN "quoted_string"
         ELSE ""
    ELSE IF ch = <<DQUOTE>> THEN "quoted_string"
         ELSE IF ch = <<QUOTE>> THEN "quoted_expression"
         ELSE IF ch = <<HASH>>
              THEN IF _peek_ahead(t, i, 1) \in {<<116>>, <<102>>}
                   THEN "boolean" ELSE "hexadecimal"
         ELSE IF InLiteral(ch, ComparisonStart) THEN "comparison_operator"
         ELSE IF StrIsDigit(ch) THEN "number_or_verbatim"
         ELSE IF ch = <<PIPE>> THEN "base64"
         ELSE IF StrIsAlnum(ch) \/ InLiteral(ch, TokenPunctuation) THEN "token"
         ELSE ""

_parse_number_or_verbatim(t, i) ==
    LET j == _consume_while(t, i, DigitChars)
        number_str == Slice(t, i, j)
        p == _peek(t, j)
    IN  IF p.ch = <<COLON>>
        THEN \* int(number_str) raises ValueError on a digit such as a
             \* superscript two
             IF ~IsAsciiDigits(number_str) THEN Raises("ValueError", p.idx + 1)
             ELSE LET length == IntOf(number_str)
                      c == _consume(t, p.idx + 1, length)
                  IN  IF Len(c.s) # length THEN Raises("ValueError", c.idx)
                      ELSE Returns(Str(c.s), c.idx)
        ELSE Returns(Str(number_str), p.idx)

\* bytes.fromhex(...).decode("utf-8"), and the raw bytes on
\* UnicodeDecodeError; fromhex raises ValueError on an odd number of digits.
DecodeHex(hex_string, i) ==
    IF Len(hex_string) % 2 = 1 THEN Raises("ValueError", i)
    ELSE LET b == FromHex(hex_string)
             d == Utf8Decode(b)
         IN  Returns(IF d.ok THEN Str(d.v) ELSE Bytes(b), i)

_parse_hexadecimal(vr, t, i) ==
    LET start_pos == i + 1
        j == _consume_while(t, start_pos, HexDigitChars)
        hex_string == Slice(t, start_pos, j)
        p == _peek(t, j)
    IN  IF hex_string = <<>> /\ vr = "se" THEN Raises("ValueError", j)
        ELSE IF hex_string = <<>> /\ p.ch = <<HASH>>
             THEN Returns(Str(<<>>), p.idx + 1)
        ELSE IF p.ch # <<HASH>> THEN Raises("ValueError", p.idx)
        ELSE DecodeHex(hex_string, p.idx + 1)

_parse_base64(t, i) ==
    LET j == _consume_while(t, i + 1, Base64Alphabet \cup {61})
        base64_string == Slice(t, i + 1, j)
        c == _consume(t, j, 1)
    IN  IF c.s # <<PIPE>> THEN Raises("ValueError", c.idx)
        ELSE LET b == b64decode(base64_string)
                 d == Utf8Decode(b.v)
             IN  IF ~b.ok THEN Raises("binascii.Error", c.idx)
                 ELSE Returns(IF d.ok THEN Str(d.v) ELSE Bytes(b.v), c.idx)

_parse_token(t, i) ==
    LET j == _consume_while(t, i, TokenChars)
    IN  Returns(Str(Slice(t, i, j)), j)

_parse_comparison_operator(t, i) ==
    LET j == _consume_while(t, i, ComparisonChars)
    IN  Returns(Str(Slice(t, i, j)), j)

_parse_boolean(t, i) ==
    LET p == _peek(t, i + 1)
    IN  IF p.ch = <<116>> THEN Returns(Bool(TRUE), p.idx + 1)
        ELSE IF p.ch = <<102>> THEN Returns(Bool(FALSE), p.idx + 1)
        ELSE Raises("ValueError", p.idx)

\* _handle_escape of a str of length at most one.
_handle_escape(next_char) ==
    IF next_char = <<110>> THEN <<NEWLINE>>
    ELSE IF next_char = <<116>> THEN <<TAB>>
    ELSE next_char

(***************************************************************************)
(* The inputs handed to SExpressionParser: every text over a few           *)
(* characters up to a length, per atom form, and the examples of the       *)
(* specification and the tests.                                            *)
(***************************************************************************)
MaxTextLen == 4
MaxContentLen == 3
\* How far past the end of the text and how long a list the parser is
\* followed when it does not stop by itself.
MaxOverrun == 2
MaxCollected == 4

ListTexts == SeqsUpTo({LPAREN, RPAREN, 97, SPACE}, MaxTextLen)

QuotedContents == SeqsUpTo({97, SPACE, SEMICOLON, BACKSLASH}, MaxContentLen)

QuotedTexts ==
    {<<DQUOTE>> \o c \o <<DQUOTE>> : c \in QuotedContents}
    \cup {<<DQUOTE>> \o c : c \in QuotedContents}

TokenTexts == SeqsUpTo({97, COLON, 61, 49, 45}, MaxContentLen)

VerbatimTexts ==
    {StrOfInt(n) \o <<COLON>> \o s :
        n \in 0..MaxContentLen, s \in SeqsUpTo({97, 233}, MaxContentLen)}

HexTexts ==
    {<<HASH>> \o h \o <<HASH>> : h \in SeqsUpTo({54, 49, 99, 51, 101, 57, 97}, MaxTextLen)}
    \cup {<<HASH, 116>>, <<HASH, 102>>, <<HASH, 54, 49>>}

Base64Texts ==
    {<<PIPE>> \o b \o <<PIPE>> : b \in SeqsUpTo({89, 81, 61, 119}, MaxTextLen)}
    \cup {<<PIPE, 89, 81>>}

ExampleTexts ==
    { <<LPAREN, 97, SPACE, DQUOTE, 98, SPACE, 99, DQUOTE, SPACE, 100, RPAREN>>,
      <<LPAREN, 97, SPACE, 98, SPACE, 99, RPAREN>>,
      <<LPAREN, 51, COLON, 97, 98, 99, RPAREN>>,
      <<LPAREN, HASH, 54, 49, 54, 50, 54, 51, HASH, RPAREN>>,
      <<LPAREN, 97, SPACE, SEMICOLON, 99, NEWLINE, 98, RPAREN>>,
      <<QUOTE, 97>>,
      <<LPAREN, QUOTE, LPAREN, 97, RPAREN, RPAREN>>,
      <<SPACE, 97, SPACE>>,
      <<36>> }

\* Texts that end inside an open list or an open quoted string, and the
\* examples, one value of every kind and an unknown character.
TerminationTexts ==
    { <<LPAREN>>, <<LPAREN, 97>>, <<LPAREN, 97, SPACE, 98>>,
      <<LPAREN, LPAREN, 97, RPAREN>>,
      <<DQUOTE>>, <<DQUOTE, 97, 98>>, <<DQUOTE, 97, BACKSLASH>>,
      <<LPAREN, DQUOTE, 97>>,
      <<97>>, <<49, 50>>, <<HASH, 116>>, <<62, 61>>, <<PIPE, 89, 81, 61, 61, PIPE>>,
      <<DQUOTE, 97, BACKSLASH, 110, DQUOTE>> }
    \cup ExampleTexts

\* Texts that hold no value: nothing, whitespace, a comment.
EmptyTexts ==
    { <<>>, <<SPACE>>, <<NEWLINE>>, <<SEMICOLON, 97>>,
      <<SPACE, SEMICOLON, 97>>, <<SEMICOLON, 97, NEWLINE, SPACE>> }

\* Characters that begin no atom: $ @ % : and the backslash.
UnknownStartChars == {36, 64, 37, COLON, BACKSLASH}

\* Such a character by itself, before a token, and inside a list.
UnknownTexts ==
    { <<c>> \o r : c \in UnknownStartChars, r \in SeqsUpTo({97}, 1) }
    \cup { <<LPAREN, c, RPAREN>> : c \in UnknownStartChars }

\* The comment ;c up to the end of its line, and what may stand before an
\* item of a list: a space, a comment, a space and a comment.
Comment == <<SEMICOLON, 99, NEWLINE>>

Gaps == {<<SPACE>>, Comment, <<SPACE>> \o Comment}

\* The items, each a token, with gaps[i] before the i-th, from the i-th on.
RECURSIVE RenderItems(_, _, _)
RenderItems(items, gaps, i) ==
    IF i > Len(items) THEN <<>>
    ELSE gaps[i] \o items[i] \o RenderItems(items, gaps, i + 1)

RenderList(items, gaps) == <<LPAREN>> \o RenderItems(items, gaps, 1) \o <<RPAREN>>

\* Lists of at most MaxItems tokens a or b with every choice of gaps, and
\* a token after a comment.
CommentedTexts ==
    UNION { { RenderList(items, gaps) : gaps \in [1..Len(items) -> Gaps] } :
              items \in SeqsUpTo({<<97>>, <<98>>}, MaxItems) }
    \cup { Comment \o <<97>>, <<SPACE>> \o Comment \o <<SPACE, 97>> }

\* Lists of at most MaxItems items, each the token a or b or a list of at
\* most MaxItems of these tokens.
NestedTrees ==
    LET tokens == {Str(<<97>>), Str(<<98>>)}
        inner == {List(items) : items \in SeqsUpTo(tokens, MaxItems)}
    IN  {List(items) : items \in SeqsUpTo(tokens \cup inner, MaxItems)}

\* The text of a tree: a token as it is, a list as its items between
\* parentheses with one space between them.
RECURSIVE RenderTree(_)
RECURSIVE RenderTrees(_, _)
RenderTrees(items, i) ==
    IF i > Len(items) THEN <<>>
    ELSE (IF i > 1 THEN <<SPACE>> ELSE <<>>)
         \o RenderTree(items[i]) \o RenderTrees(items, i + 1)

RenderTree(tr) ==
    IF tr.k = "str" THEN tr.v
    ELSE <<LPAREN>> \o RenderTrees(tr.v, 1) \o <<RPAREN>>

NestedTexts == {RenderTree(tr) : tr \in NestedTrees}

\* The digit pairs 61 and 62, and #hh hh# for every two of them.
HexPairs == {<<54, 49>>, <<54, 50>>}

SpacedHexTexts ==
    { <<HASH>> \o p \o <<SPACE>> \o q \o <<HASH>> : p \in HexPairs, q \in HexPairs }

ParserInputs ==
    EmptyTexts \cup UnknownTexts \cup CommentedTexts \cup NestedTexts \cup
    SpacedHexTexts \cup
    ListTexts \cup QuotedTexts \cup TokenTexts \cup VerbatimTexts
    \cup HexTexts \cup Base64Texts \cup ExampleTexts \cup TerminationTexts

Frame(f, items) == [f |-> f, items |-> items]

Top == stack[Len(stack)]

Pop == SubSeq(stack, 1, Len(stack) - 1)

ParserIdle ==
    /\ variant = "none"
    /\ input = <<>>
    /\ text = <<>>
    /\ index = 0
    /\ stack = <<>>
    /\ pc = "idle"
    /\ val = None
    /\ err = ""

\* SExpressionParser(input)
ParserInit ==
    /\ variant \in {"se", "s_expression"}
    /\ input \in ParserInputs
    /\ text = Strip(input)
    /\ index = 0
    /\ stack = <<>>
    /\ pc = "new"
    /\ val = None
    /\ err = ""

\* The end of a method that calls no other parsing method: r is what it
\* returns or raises.
Finish(r) ==
    /\ index' = r.idx
    /\ pc' = IF r.ok THEN "return" ELSE "raised"
    /\ val' = r.val
    /\ err' = r.err
    /\ UNCHANGED <<variant, input, text, stack>>
    /\ UNCHANGED <<pvars, lvars, xvars>>

parse ==
    /\ pc = "new"
    /\ pc' = "sexpr"
    /\ UNCHANGED <<variant, input, text, index, stack, val, err>>
    /\ UNCHANGED <<pvars, lvars, xvars>>

\* _parse_sexpr up to the call it ends with.
ParseSexpr ==
    /\ pc = "sexpr"
    /\ LET p == _peek(text, _skip_whitespace(text, index))
       IN  /\ index' = p.idx
           /\ pc' = IF p.ch = <<LPAREN>> THEN "list"
                    ELSE IF p.ch = <<RPAREN>> THEN "raised"
                    ELSE "atom"
           /\ err' = IF p.ch = <<RPAREN>> THEN "ValueError" ELSE err
    /\ UNCHANGED <<variant, input, text, stack, val>>
    /\ UNCHANGED <<pvars, lvars, xvars>>

\* _parse_list up to its loop.
ParseListEnter ==
    /\ pc = "list"
    /\ index' = _consume(text, index, 1).idx
    /\ stack' = Append(stack, Frame("list", <<>>))
    /\ pc' = "list_loop"
    /\ UNCHANGED <<variant, input, text, val, err>>
    /\ UNCHANGED <<pvars, lvars, xvars>>

\* One test of the loop of _parse_list: the call of _parse_sexpr, or the
\* end of the method.
ParseListLoop ==
    /\ pc = "list_loop"
    /\ LET p == _peek(text, index)
       IN  IF p.ch # <<RPAREN>>
           THEN /\ index' = p.idx
                /\ pc' = "sexpr"
                /\ UNCHANGED <<stack, val>>
           ELSE /\ index' = _consume(text, p.idx, 1).idx
                /\ stack' = Pop
                /\ val' = List(Top.items)
                /\ pc' = "return"
    /\ UNCHANGED <<variant, input, text, err>>
    /\ UNCHANGED <<pvars, lvars, xvars>>

\* _parse_atom up to the call it ends with.
ParseAtom ==
    /\ pc = "atom"
    /\ LET p == _peek(text, _skip_whitespace(text, index))
           method == AtomDispatch(variant, text, p.idx, p.ch)
       IN  /\ index' = p.idx
           /\ pc' = IF method = "" THEN "raised" ELSE method
           /\ err' = IF method = "" THEN "ValueError" ELSE err
    /\ UNCHANGED <<variant, input, text, stack, val>>
    /\ UNCHANGED <<pvars, lvars, xvars>>

ParseNumberOrVerbatim ==
    /\ pc = "number_or_verbatim"
    /\ Finish(_parse_number_or_verbatim(text, index))

ParseHexadecimal ==
    /\ pc = "hexadecimal"
    /\ Finish(_parse_hexadecimal(variant, text, index))

ParseBase64 ==
    /\ pc = "base64"
    /\ Finish(_parse_base64(text, index))

ParseToken ==
    /\ pc = "token"
    /\ Finish(_parse_token(text, index))

ParseComparisonOperator ==
    /\ pc = "comparison_operator"
    /\ Finish(_parse_comparison_operator(text, index))

ParseBoolean ==
    /\ pc = "boolean"
    /\ Finish(_parse_boolean(text, index))

\* _parse_quoted_expression up to its call of _parse_sexpr.
ParseQuotedExpression ==
    /\ pc = "quoted_expression"
    /\ index' = _consume(text, index, 1).idx
    /\ stack' = Append(stack, Frame("quote", <<>>))
    /\ pc' = "sexpr"
    /\ UNCHANGED <<variant, input, text, val, err>>
    /\ UNCHANGED <<pvars, lvars, xvars>>

\* _parse_quoted_string up to its loop.
ParseQuotedStringEnter ==
    /\ pc = "quoted_string"
    /\ index' = _consume(text, index, 1).idx
    /\ stack' = Append(stack, Frame("quoted_string", <<>>))
    /\ pc' = "quoted_string_loop"
    /\ UNCHANGED <<variant, input, text, val, err>>
    /\ UNCHANGED <<pvars, lvars, xvars>>

\* What one round of the loop of _parse_quoted_string, begun at index i,
\* appends to result, and the index it leaves.
QuotedStringRound(vr, t, i) ==
    LET p == _peek(t, i)
        bs == _consume(t, p.idx, 1)
    IN  IF p.ch # <<BACKSLASH>> THEN [s |-> bs.s, idx |-> bs.idx]
        ELSE IF vr = "se"
        THEN LET next_char == _consume(t, bs.idx, 1)
             IN  [s |-> _handle_escape(next_char.s), idx |-> next_char.idx]
        ELSE LET q == _peek(t, bs.idx)
             IN  IF q.ch \in {<<DQUOTE>>, <<BACKSLASH>>, <<110>>, <<116>>, <<SPACE>>}
                 THEN [s |-> _handle_escape(_consume(t, q.idx, 1).s),
                       idx |-> q.idx + 1]
                 ELSE [s |-> <<BACKSLASH>>, idx |-> q.idx]

\* One round of the loop of _parse_quoted_string, or the end of the method.
ParseQuotedStringLoop ==
    /\ pc = "quoted_string_loop"
    /\ index < Len(text) + MaxOverrun
    /\ LET p == _peek(text, index)
           r == QuotedStringRound(variant, text, index)
       IN  IF p.ch = <<DQUOTE>>
           THEN /\ index' = _consume(text, p.idx, 1).idx
                /\ stack' = Pop
                /\ val' = Str(Top.items)
                /\ pc' = "return"
           ELSE /\ index' = r.idx
                /\ stack' = Append(Pop, Frame("quoted_string", Top.items \o r.s))
                /\ UNCHANGED <<val, pc>>
    /\ UNCHANGED <<variant, input, text, err>>
    /\ UNCHANGED <<pvars, lvars, xvars>>

\* Not what the code does: the new item goes to the front of result.
ResultPrepend(result, item) == <<item>> \o result

\* result.append(item) of _parse_list.
ResultAppend(result, item) == Append(result, item)

\* A method returns val to its caller: parse returns it, _parse_list
\* appends it to result, _parse_quoted_expression wraps it and returns.
Return ==
    /\ pc = "return"
    /\ IF stack = <<>>
       THEN /\ pc' = "done"
            /\ UNCHANGED <<stack, val>>
       ELSE IF Top.f = "list"
       THEN /\ Len(Top.items) < MaxCollected
            /\ stack' = Append(Pop, Frame("list", ResultAppend(Top.items, val)))
            /\ pc' = "list_loop"
            /\ UNCHANGED val
       ELSE /\ stack' = Pop
            /\ val' = List(<<Str(<<113, 117, 111, 116, 101>>), val>>)
            /\ UNCHANGED pc
    /\ UNCHANGED <<variant, input, text, index, err>>
    /\ UNCHANGED <<pvars, lvars, xvars>>

ParserNext ==
    \/ parse
    \/ ParseSexpr
    \/ ParseListEnter
    \/ ParseListLoop
    \/ ParseAtom
    \/ ParseNumberOrVerbatim
    \/ ParseHexadecimal
    \/ ParseBase64
    \/ ParseToken
    \/ ParseComparisonOperator
    \/ ParseBoolean
    \/ ParseQuotedExpression
    \/ ParseQuotedStringEnter
    \/ ParseQuotedStringLoop
    \/ Return

(***************************************************************************)
(* The grammar of rfc9804.peg, which sexp.parser compiles and hands parts  *)
(* of the text to.  Each rule below tells whether the rule of that name    *)
(* matches the whole of s, read as the ABNF of RFC 9804 defines it.        *)
(***************************************************************************)
AlphaChars == (65..90) \cup (97..122)

\* simple-punc: - . / _ : * + =
SimplePunc == {45, 46, 47, 95, 58, 42, 43, 61}

PrintableChars == (32..33) \cup (35..91) \cup (93..126)

GrammarWhitespace == {32, 9, 11, 13, 10, 12}

\* The characters that may follow a backslash by themselves:
\* ? a b f n r t v " ' \
SimpleEscapes == {63, 97, 98, 102, 110, 114, 116, 118, 34, 39, 92}

\* The length of the decimal s begins with: "0", or a digit from 1 to 9 and
\* the digits after it; 0 where s begins with no decimal.
DecimalPrefix(s) ==
    IF s = <<>> \/ s[1] \notin AsciiDigitChars THEN 0
    ELSE IF s[1] = 48 THEN 1
    ELSE _consume_while(s, 0, AsciiDigitChars)

GrammarToken(s) ==
    /\ s # <<>>
    /\ s[1] \in AlphaChars \cup SimplePunc
    /\ \A i \in 2..Len(s) : s[i] \in AlphaChars \cup AsciiDigitChars \cup SimplePunc

GrammarVerbatim(s) ==
    LET d == DecimalPrefix(s)
    IN  /\ d > 0
        /\ Len(s) > d
        /\ s[d + 1] = COLON
        /\ \A i \in (d + 2)..Len(s) : s[i] \in 0..255

\* The length of the escape sequence s holds at position i, a backslash; 0
\* where it holds none.
EscapeLen(s, i) ==
    LET at(j) == IF j <= Len(s) THEN s[j] ELSE 0 - 1
    IN  IF at(i + 1) \in SimpleEscapes THEN 2
        ELSE IF /\ at(i + 1) \in 48..55
                /\ at(i + 2) \in 48..55
                /\ at(i + 3) \in 48..55 THEN 4
        ELSE IF /\ at(i + 1) = 120
                /\ at(i + 2) \in HexDigitChars
                /\ at(i + 3) \in HexDigitChars THEN 4
        ELSE IF at(i + 1) = CR THEN (IF at(i + 2) = NEWLINE THEN 3 ELSE 2)
        ELSE IF at(i + 1) = NEWLINE THEN (IF at(i + 2) = CR THEN 3 ELSE 2)
        ELSE 0

\* *(printable / escaped) dquote, from position i to the end of s.
RECURSIVE QuotedBody(_, _)
QuotedBody(s, i) ==
    IF i > Len(s) THEN FALSE
    ELSE IF s[i] = DQUOTE THEN i = Len(s)
    ELSE IF s[i] \in PrintableChars THEN QuotedBody(s, i + 1)
    ELSE IF s[i] = BACKSLASH /\ EscapeLen(s, i) > 0
         THEN QuotedBody(s, i + EscapeLen(s, i))
    ELSE FALSE

GrammarQuotedString(s) ==
    LET d == DecimalPrefix(s)
    IN  /\ Len(s) >= d + 2
        /\ s[d + 1] = DQUOTE
        /\ QuotedBody(s, d + 2)

\* s without its whitespace.
RECURSIVE Unspaced(_, _)
Unspaced(s, W) ==
    IF s = <<>> THEN <<>>
    ELSE (IF Head(s) \in W THEN <<>> ELSE <<Head(s)>>) \o Unspaced(Tail(s), W)

GrammarHexadecimal(s) ==
    LET d == DecimalPrefix(s)
        digits == Unspaced(SubSeq(s, d + 2, Len(s) - 1), GrammarWhitespace)
    IN  /\ Len(s) >= d + 2
        /\ s[d + 1] = HASH
        /\ s[Len(s)] = HASH
        /\ \A i \in 1..Len(digits) : digits[i] \in HexDigitChars
        /\ Len(digits) % 2 = 0

GrammarBase64(s) ==
    LET d == DecimalPrefix(s)
        body == Unspaced(SubSeq(s, d + 2, Len(s) - 1), GrammarWhitespace)
        n == _consume_while(body, 0, AlphaChars \cup AsciiDigitChars \cup {43, 47})
        pad == Len(body) - n
    IN  /\ Len(s) >= d + 2
        /\ s[d + 1] = PIPE
        /\ s[Len(s)] = PIPE
        /\ \A i \in (n + 1)..Len(body) : body[i] = 61
        /\ n % 4 # 1
        /\ pad <= (IF n % 4 = 0 THEN 0 ELSE 4 - (n % 4))

(***************************************************************************)
(* sexp.parser: SExpressionVisitor, loads and dumps.                       *)
(***************************************************************************)

\* s.find(c, i): the first position from i on that holds c, or -1.
RECURSIVE Find(_, _, _)
Find(t, c, i) ==
    IF i >= Len(t) THEN 0 - 1
    ELSE IF t[i + 1] = c THEN i
    ELSE Find(t, c, i + 1)

\* int(s) of a str that begins with a digit: [ok, n]; ok is false where
\* Python raises ValueError.  int accepts whitespace after the digits and
\* single underscores between them.
PyInt(s) ==
    LET r == RStrip(s)
        digits == Unspaced(r, {95})
    IN  [ok |-> /\ r # <<>>
                /\ \A i \in 1..Len(r) : r[i] \in AsciiDigitChars \cup {95}
                /\ r[1] # 95
                /\ r[Len(r)] # 95
                /\ \A i \in 1..(Len(r) - 1) : ~(r[i] = 95 /\ r[i + 1] = 95),
         n |-> IF \A i \in 1..Len(digits) : digits[i] \in AsciiDigitChars
               THEN IntOf(digits) ELSE 0]

\* chr(int(s, 16)) of a str of two characters: [ok, c]; ok is false where
\* Python raises ValueError.  int accepts a sign or a space for a digit.
PyChrHex2(s) ==
    LET h1 == s[1] \in HexDigitChars
        h2 == s[2] \in HexDigitChars
    IN  IF h1 /\ h2 THEN [ok |-> TRUE, c |-> 16 * HexValue(s[1]) + HexValue(s[2])]
        ELSE IF h2 /\ (s[1] \in SpaceChars \/ s[1] = 43)
             THEN [ok |-> TRUE, c |-> HexValue(s[2])]
        ELSE IF h1 /\ s[2] \in SpaceChars THEN [ok |-> TRUE, c |-> HexValue(s[1])]
        ELSE IF s = <<45, 48>> THEN [ok |-> TRUE, c |-> 0]
        ELSE [ok |-> FALSE, c |-> 0]

\* SExpressionVisitor.visit_verbatim of the text the verbatim rule matched:
\* [ok, v]; ok is false where it raises ValueError.
visit_verbatim(full_text) ==
    LET colon_pos == Find(full_text, COLON, 0)
        length == IntOf(Slice(full_text, 0, colon_pos))
        data_start == colon_pos + 1
    IN  IF Len(full_text) < data_start + length THEN [ok |-> FALSE, v |-> <<>>]
        ELSE [ok |-> TRUE, v |-> Slice(full_text, data_start, data_start + length)]

\* The character each one-letter escape of visit_quoted_string stands for.
EscapeChar(c) ==
    CASE c = 97 -> 7
      [] c = 98 -> 8
      [] c = 116 -> TAB
      [] c = 118 -> 11
      [] c = 110 -> NEWLINE
      [] c = 102 -> 12
      [] c = 114 -> CR
      [] OTHER -> c

\* The loop of visit_quoted_string over content, from i on: the characters
\* it appends to result.
RECURSIVE DecodeQuoted(_, _)
DecodeQuoted(c, i) ==
    IF i >= Len(c) THEN <<>>
    ELSE IF ~(c[i + 1] = BACKSLASH /\ i + 1 < Len(c))
    THEN <<c[i + 1]>> \o DecodeQuoted(c, i + 1)
    ELSE
    LET next_char == c[i + 2] IN
    IF next_char \in SimpleEscapes
    THEN <<EscapeChar(next_char)>> \o DecodeQuoted(c, i + 2)
    ELSE IF next_char = 120 /\ i + 3 < Len(c)
    THEN LET h == PyChrHex2(Slice(c, i + 2, i + 4))
         IN  IF h.ok THEN <<h.c>> \o DecodeQuoted(c, i + 4)
             ELSE <<BACKSLASH>> \o DecodeQuoted(c, i + 1)
    ELSE IF next_char \in DigitChars /\ i + 3 < Len(c)
    THEN IF \A j \in 2..4 : c[i + j] \in 48..55
         THEN <<(64 * (c[i + 2] - 48) + 8 * (c[i + 3] - 48) + (c[i + 4] - 48)) % 256>>
              \o DecodeQuoted(c, i + 4)
         ELSE <<BACKSLASH, next_char>> \o DecodeQuoted(c, i + 3)
    ELSE IF next_char = CR
    THEN IF i + 2 < Len(c) /\ c[i + 3] = NEWLINE
         THEN DecodeQuoted(c, i + 4) ELSE DecodeQuoted(c, i + 3)
    ELSE IF next_char = NEWLINE
    THEN IF i + 2 < Len(c) /\ c[i + 3] = CR
         THEN DecodeQuoted(c, i + 4) ELSE DecodeQuoted(c, i + 3)
    ELSE <<BACKSLASH>> \o DecodeQuoted(c, i + 1)

\* SExpressionVisitor.visit_quoted_string of the text the quoted_string
\* rule matched: [ok, v]; ok is false where it raises ValueError.
visit_quoted_string(full_text) ==
    LET prefixed == full_text[1] \in DigitChars
        quote_start == Find(full_text, DQUOTE, 0)
        content == Slice(full_text, (IF prefixed THEN quote_start ELSE 0) + 1,
                         Len(full_text) - 1)
        final_result == DecodeQuoted(content, 0)
    IN  IF /\ prefixed
           /\ Len(Utf8Encode(final_result)) # IntOf(Slice(full_text, 0, quote_start))
        THEN [ok |-> FALSE, v |-> <<>>]
        ELSE [ok |-> TRUE, v |-> final_result]

\* bytes.decode("utf-8", errors="replace"): every maximal ill-formed part
\* becomes U+FFFD.
RECURSIVE Utf8DecodeReplace(_)
Utf8DecodeReplace(b) ==
    IF b = <<>> THEN <<>>
    ELSE
    LET b1 == b[1]
        n == IF b1 < 128 THEN 1
             ELSE IF b1 \in 194..223 THEN 2
             ELSE IF b1 \in 224..239 THEN 3
             ELSE IF b1 \in 240..244 THEN 4
             ELSE 0
        \* whether the j-th byte may follow the ones before it
        fits(j) ==
            /\ j <= Len(b)
            /\ IsCont(b[j])
            /\ (j = 2 /\ b1 = 224) => b[2] >= 160
            /\ (j = 2 /\ b1 = 237) => b[2] <= 159
            /\ (j = 2 /\ b1 = 240) => b[2] >= 144
            /\ (j = 2 /\ b1 = 244) => b[2] <= 143
        good == IF n = 0 THEN 1
                ELSE IF \A j \in 2..n : fits(j) THEN n
                ELSE (CHOOSE j \in 2..n : ~fits(j) /\ \A m \in 2..(j - 1) : fits(m)) - 1
        whole == n > 0 /\ good = n
    IN  (IF whole THEN Utf8Decode(SubSeq(b, 1, n)).v ELSE <<65533>>)
        \o Utf8DecodeReplace(SubSeq(b, good + 1, Len(b)))

\* SExpressionVisitor.visit_hexadecimal of the text the hexadecimal rule
\* matched: [ok, v]; ok is false where it raises ValueError.
visit_hexadecimal(node_text) ==
    LET content == Strip(node_text)
        hex_data == Unspaced(Slice(content, Find(content, HASH, 0) + 1,
                                   Len(content) - 1), SpaceChars)
    IN  IF Len(hex_data) % 2 # 0 THEN [ok |-> FALSE, v |-> <<>>]
        ELSE [ok |-> TRUE, v |-> Utf8DecodeReplace(FromHex(hex_data))]

\* SExpressionVisitor.visit_base_64 of the text the base_64 rule matched:
\* [ok, v]; ok is false where b64decode raises binascii.Error.
visit_base_64(node_text) ==
    LET content == Strip(node_text)
        b64_data == Unspaced(Slice(content, Find(content, PIPE, 0) + 1,
                                   Len(content) - 1), SpaceChars)
        missing_padding == Len(b64_data) % 4
        padded == b64_data \o [i \in 1..(IF missing_padding = 0 THEN 0
                                         ELSE 4 - missing_padding) |-> 61]
        b == b64decode(padded)
    IN  IF ~b.ok THEN [ok |-> FALSE, v |-> <<>>]
        ELSE [ok |-> TRUE, v |-> Utf8DecodeReplace(b.v)]

\* The index the whitespace loops of loads leave, begun at i.
SkipSpace(t, i) == _consume_while(t, i, SpaceChars)

\* The end of the token that begins at i: the first whitespace or
\* parenthesis from position e on.
RECURSIVE TokenEnd(_, _)
TokenEnd(t, e) ==
    IF e < Len(t) /\ t[e + 1] \notin SpaceChars /\ t[e + 1] \notin {LPAREN, RPAREN}
    THEN TokenEnd(t, e + 1) ELSE e

\* The loops of parse_sexp that look for the closing quote of the string
\* whose opening quote is at quote_start, from end_quote on.  In a string
\* with a length prefix a quote right after the opening one closes it
\* whatever precedes it.
RECURSIVE EndQuote(_, _, _, _)
EndQuote(t, quote_start, end_quote, prefixed) ==
    IF end_quote >= Len(t) THEN end_quote
    ELSE IF /\ t[end_quote + 1] = DQUOTE
            /\ \/ prefixed /\ end_quote = quote_start + 1
               \/ t[end_quote] # BACKSLASH
    THEN end_quote
    ELSE EndQuote(t, quote_start, end_quote + 1, prefixed)

\* The quoted-string branches of parse_sexp: the string begins at i and its
\* opening quote is at quote_start.
LoadsQuoted(t, i, quote_start, prefixed) ==
    LET end_quote == EndQuote(t, quote_start, quote_start + 1, prefixed)
        quoted_part == Slice(t, i, end_quote + 1)
        r == visit_quoted_string(quoted_part)
    IN  IF end_quote >= Len(t) THEN Raises("ValueError", i)
        ELSE IF GrammarQuotedString(quoted_part) /\ r.ok
        THEN Returns(Str(r.v), end_quote + 1)
        ELSE Raises("ValueError", i)

\* The branch of parse_sexp for a number token.
LoadsNumber(t, i) ==
    LET end == _consume_while(t, i, DigitChars)
    IN  Returns(Str(Slice(t, i, end)), end)

\* The branch of parse_sexp for a text that begins with a digit at i.
LoadsDigit(t, i) ==
    LET colon_pos == Find(t, COLON, i)
        quote_pos == Find(t, DQUOTE, i)
    IN  IF colon_pos # 0 - 1 /\ (quote_pos = 0 - 1 \/ colon_pos < quote_pos)
        THEN LET length == PyInt(Slice(t, i, colon_pos))
                 expected_end == colon_pos + 1 + length.n
                 verbatim_part == Slice(t, i, expected_end)
             IN  IF /\ length.ok
                    /\ expected_end <= Len(t)
                    /\ GrammarVerbatim(verbatim_part)
                    /\ visit_verbatim(verbatim_part).ok
                 THEN Returns(Str(visit_verbatim(verbatim_part).v), expected_end)
                 ELSE \* every exception is caught
                      LoadsNumber(t, i)
        ELSE IF quote_pos # 0 - 1 THEN LoadsQuoted(t, i, quote_pos, TRUE)
        ELSE LoadsNumber(t, i)

\* The branch of parse_sexp for a text that begins with "#" at i.
LoadsHash(t, i) ==
    LET end == TokenEnd(t, i + 1)
        token_part == Slice(t, i, end)
        hex == visit_hexadecimal(token_part)
        b64 == visit_base_64(token_part)
    IN  IF i + 1 < Len(t) /\ t[i + 2] = 116 THEN Returns(Bool(TRUE), i + 2)
        ELSE IF i + 1 < Len(t) /\ t[i + 2] = 102 THEN Returns(Bool(FALSE), i + 2)
        ELSE IF GrammarHexadecimal(token_part) /\ hex.ok
        THEN Returns(Str(hex.v), end)
        ELSE IF GrammarBase64(token_part) /\ b64.ok
        THEN Returns(Str(b64.v), end)
        ELSE Returns(Str(token_part), end)

\* parse_sexp(text, index) of loads, and its loop over the items of a list.
RECURSIVE parse_sexp(_, _)
RECURSIVE ParseSexpItems(_, _, _)
ParseSexpItems(t, i, items) ==
    LET j == SkipSpace(t, i)
        r == parse_sexp(t, j)
    IN  IF j >= Len(t) THEN Raises("ValueError", j)
        ELSE IF t[j + 1] = RPAREN THEN Returns(List(items), j + 1)
        ELSE IF r.ok THEN ParseSexpItems(t, r.idx, Append(items, r.val))
        ELSE r

parse_sexp(t, i0) ==
    LET i == SkipSpace(t, i0)
        end == TokenEnd(t, i)
    IN  IF i >= Len(t) THEN Raises("ValueError", i)
        ELSE IF t[i + 1] = LPAREN THEN ParseSexpItems(t, i + 1, <<>>)
        ELSE IF t[i + 1] \in DigitChars THEN LoadsDigit(t, i)
        ELSE IF t[i + 1] = DQUOTE THEN LoadsQuoted(t, i, i, FALSE)
        ELSE IF t[i + 1] = HASH THEN LoadsHash(t, i)
        ELSE IF end = i THEN Raises("ValueError", i)
        ELSE Returns(Str(Slice(t, i, end)), end)

\* The loop of loads over the values of s, from index i on, with the values
\* before it in results.
RECURSIVE LoadsLoop(_, _, _)
LoadsLoop(t, i, results) ==
    IF i >= Len(t)
    THEN IF Len(results) = 1 THEN Returns(results[1], i)
         ELSE IF Len(results) = 0 THEN Raises("ValueError", i)
         ELSE Returns(List(results), i)
    ELSE LET r == parse_sexp(t, i)
         IN  IF r.ok THEN LoadsLoop(t, SkipSpace(t, r.idx), Append(results, r.val))
             ELSE r

loads(str) == LoadsLoop(Strip(str), 0, <<>>)

\* What a call of dumps gives: the text it returns, or the exception it
\* raises and no text.
DumpsReturns(str) == [ok |-> TRUE, val |-> str, err |-> ""]

DumpsRaises(e) == [ok |-> FALSE, val |-> <<>>, err |-> e]

RECURSIVE _dumps_canonical(_)
RECURSIVE DumpsCanonicalItems(_, _)
RECURSIVE DumpsCanonicalItemsSkipping(_, _)
\* A join, from the i-th item on, that passes over an item whose
\* _dumps_canonical raises.
DumpsCanonicalItemsSkipping(items, i) ==
    LET first == _dumps_canonical(items[i])
        rest == DumpsCanonicalItemsSkipping(items, i + 1)
    IN  IF i > Len(items) THEN DumpsReturns(<<>>)
        ELSE IF ~first.ok THEN rest
        ELSE DumpsReturns(first.val \o rest.val)

\* ''.join(_dumps_canonical(n) for n in node), from the i-th item on: the
\* exception of an item leaves the generator and the join.
DumpsCanonicalItems(items, i) ==
    LET first == _dumps_canonical(items[i])
        rest == DumpsCanonicalItems(items, i + 1)
    IN  IF i > Len(items) THEN DumpsReturns(<<>>)
        ELSE IF ~first.ok THEN first
        ELSE IF ~rest.ok THEN rest
        ELSE DumpsReturns(first.val \o rest.val)

_dumps_canonical(nd) ==
    LET joined == DumpsCanonicalItems(nd.v, 1)
    IN  IF nd.k = "str"
        THEN DumpsReturns(StrOfInt(Len(Utf8Encode(nd.v))) \o <<COLON>> \o nd.v)
        ELSE IF nd.k = "bool"
        THEN DumpsReturns(IF nd.v[1] THEN <<HASH, 116>> ELSE <<HASH, 102>>)
        ELSE IF nd.k = "list"
        THEN IF joined.ok
             THEN DumpsReturns(<<LPAREN>> \o joined.val \o <<RPAREN>>)
             ELSE joined
        ELSE DumpsRaises("TypeError")

\* The two lowercase hexadecimal digits of f"{n:02x}", or more where n
\* exceeds 255.
RECURSIVE HexOfInt(_)
HexOfInt(n) ==
    LET digit(d) == IF d < 10 THEN 48 + d ELSE 87 + d
    IN  IF n < 16 THEN <<digit(n)>>
        ELSE HexOfInt(n \div 16) \o <<digit(n % 16)>>

\* What the loop of _dumps_advanced appends for one character.
AdvancedChar(c) ==
    CASE c = DQUOTE -> <<BACKSLASH, DQUOTE>>
      [] c = BACKSLASH -> <<BACKSLASH, BACKSLASH>>
      [] c = 7 -> <<BACKSLASH, 97>>
      [] c = 8 -> <<BACKSLASH, 98>>
      [] c = TAB -> <<BACKSLASH, 116>>
      [] c = 11 -> <<BACKSLASH, 118>>
      [] c = NEWLINE -> <<BACKSLASH, 110>>
      [] c = 12 -> <<BACKSLASH, 102>>
      [] c = CR -> <<BACKSLASH, 114>>
      [] c = QUOTE -> <<BACKSLASH, QUOTE>>
      [] c = 63 -> <<BACKSLASH, 63>>
      [] OTHER -> IF c < 32 \/ c > 126
                  THEN <<BACKSLASH, 120>>
                       \o (IF c < 16 THEN <<48>> ELSE <<>>) \o HexOfInt(c)
                  ELSE <<c>>

RECURSIVE AdvancedChars(_, _)
AdvancedChars(str, i) ==
    IF i > Len(str) THEN <<>>
    ELSE AdvancedChar(str[i]) \o AdvancedChars(str, i + 1)

RECURSIVE _dumps_advanced(_)
RECURSIVE DumpsAdvancedItems(_, _)
\* ' '.join(_dumps_advanced(n) for n in node), from the i-th item on: the
\* exception of an item leaves the generator and the join.
DumpsAdvancedItems(items, i) ==
    LET first == _dumps_advanced(items[i])
        rest == DumpsAdvancedItems(items, i + 1)
    IN  IF i > Len(items) THEN DumpsReturns(<<>>)
        ELSE IF ~first.ok THEN first
        ELSE IF ~rest.ok THEN rest
        ELSE DumpsReturns((IF i > 1 THEN <<SPACE>> ELSE <<>>)
                          \o first.val \o rest.val)

_dumps_advanced(nd) ==
    LET joined == DumpsAdvancedItems(nd.v, 1)
    IN  IF nd.k = "str"
        THEN IF GrammarToken(nd.v) THEN DumpsReturns(nd.v)
             ELSE DumpsReturns(<<DQUOTE>> \o AdvancedChars(nd.v, 1) \o <<DQUOTE>>)
        ELSE IF nd.k = "bool"
        THEN DumpsReturns(IF nd.v[1] THEN <<HASH, 116>> ELSE <<HASH, 102>>)
        ELSE IF nd.k = "list"
        THEN IF joined.ok
             THEN DumpsReturns(<<LPAREN>> \o joined.val \o <<RPAREN>>)
             ELSE joined
        ELSE DumpsRaises("TypeError")

dumps(nd, adv) == IF adv THEN _dumps_advanced(nd) ELSE _dumps_canonical(nd)

(***************************************************************************)
(* The calls of sexp.parser: dumps of a tree, loads of what it returned    *)
(* and dumps of what loads returned; or loads of a text written by hand.   *)
(***************************************************************************)
MaxStrLen == 2

LoadsChars == {97, SPACE, 233, BACKSLASH, DQUOTE, 256}

LoadsStrings == {Str(v) : v \in SeqsUpTo(LoadsChars, MaxStrLen)}

\* A str, a list of strs, or a list that holds one list.
LoadsTrees ==
    LoadsStrings
    \cup {List(items) : items \in SeqsUpTo(LoadsStrings, MaxItems)}
    \cup {List(<<List(items)>>) : items \in SeqsUpTo(LoadsStrings, 1)}

\* Texts that hold one value each: a, 1:a, "a", (a), #t, #61#, |YQ==|
ValueTexts ==
    { <<97>>, <<49, COLON, 97>>, <<DQUOTE, 97, DQUOTE>>,
      <<LPAREN, 97, RPAREN>>, <<HASH, 116>>, <<HASH, 54, 49, HASH>>,
      <<PIPE, 89, 81, 61, 61, PIPE>> }

\* One value, whitespace, and a second value.
TrailingTexts ==
    {v \o <<SPACE>> \o w : v \in ValueTexts, w \in ValueTexts}

\* The empty text, whitespace alone, an unclosed list, an unclosed string,
\* a parenthesis that closes nothing.
BrokenTexts ==
    { <<>>, <<SPACE>>, <<LPAREN, 97>>, <<DQUOTE, 97>>, <<RPAREN>> }

\* The bytes of binary payloads: a, the two bytes of U+00E9, and 0xE9, which
\* by itself is no UTF-8.
BinaryBytes == {97, 195, 169, 233}

\* bytes.hex(): two lowercase hexadecimal digits a byte.
RECURSIVE HexOfBytes(_)
HexOfBytes(b) ==
    IF b = <<>> THEN <<>>
    ELSE (IF Head(b) < 16 THEN <<48>> ELSE <<>>) \o HexOfInt(Head(b))
         \o HexOfBytes(Tail(b))

\* #hh..# for every payload of at most MaxStrLen bytes.
HexLoadsTexts ==
    {<<HASH>> \o HexOfBytes(b) \o <<HASH>> : b \in SeqsUpTo(BinaryBytes, MaxStrLen)}

\* Verbatim atoms that declare more than follows the colon: 5:abcd, and
\* n:payload with n one or two above the length of the payload.
ShortVerbatimTexts ==
    { <<53, COLON, 97, 98, 99, 100>> }
    \cup { StrOfInt(Len(payload) + more) \o <<COLON>> \o payload :
              payload \in SeqsUpTo({97}, MaxStrLen), more \in 1..2 }

\* #h..# with an odd number of hexadecimal digits: #6#, #616#, ...
OddHexTexts ==
    { <<HASH>> \o h \o <<HASH>> :
        h \in {d \in SeqsUpTo({54, 49}, 3) : Len(d) % 2 = 1} }

\* Objects dumps does not serialize: an int, a bytes, None; alone, after
\* a str in a list, and inside a list of a list.
UnsupportedObjects ==
    {[k |-> "int", v |-> <<123>>], Bytes(<<98>>), None}

UnsupportedTrees ==
    UnsupportedObjects
    \cup {List(<<o>>) : o \in UnsupportedObjects}
    \cup {List(<<Str(<<97>>), o>>) : o \in UnsupportedObjects}
    \cup {List(<<o, Str(<<97>>)>>) : o \in UnsupportedObjects}
    \cup {List(<<Str(<<97>>), List(<<Str(<<97>>), o>>)>>) : o \in UnsupportedObjects}

\* The line continuations: CR, LF, CR LF and LF CR after a backslash.
Continuations == {<<CR>>, <<NEWLINE>>, <<CR, NEWLINE>>, <<NEWLINE, CR>>}

\* What stands before and after a line continuation in the quoted strings
\* of the model: nothing, a, b, bc, and the escape \n.
AroundContinuation ==
    {<<>>, <<97>>, <<98>>, <<98, 99>>, <<BACKSLASH, 110>>}

\* "pre\<continuation>post"
ContinuationText(pre, cont, post) ==
    <<DQUOTE>> \o pre \o <<BACKSLASH>> \o cont \o post \o <<DQUOTE>>

ContinuationTexts ==
    {ContinuationText(pre, cont, post) :
        pre \in AroundContinuation, cont \in Continuations,
        post \in AroundContinuation}
    \cup {<<DQUOTE>> \o pre \o post \o <<DQUOTE>> :
            pre \in AroundContinuation, post \in AroundContinuation}

\* What a quoted string is made of, each piece one byte: a, the escape \n,
\* the octal escapes \101 and \351, the escapes \x41 and \xe9.
QuotedUnits ==
    { <<97>>, <<BACKSLASH, 110>>, <<BACKSLASH, 49, 48, 49>>,
      <<BACKSLASH, 51, 53, 49>>, <<BACKSLASH, 120, 52, 49>>,
      <<BACKSLASH, 120, 101, 57>> }

RECURSIVE Concat(_)
Concat(ss) == IF ss = <<>> THEN <<>> ELSE Head(ss) \o Concat(Tail(ss))

\* N"content" with N the number of pieces of the content or another number.
PrefixedQuotedText(n, units) ==
    StrOfInt(n) \o <<DQUOTE>> \o Concat(units) \o <<DQUOTE>>

PrefixedQuotedTexts ==
    {PrefixedQuotedText(n, units) :
        n \in 0..(MaxStrLen + 1), units \in SeqsUpTo(QuotedUnits, MaxStrLen)}

LoadsTexts ==
    ValueTexts \cup TrailingTexts \cup BrokenTexts
    \cup HexLoadsTexts \cup ShortVerbatimTexts \cup OddHexTexts
    \cup ContinuationTexts \cup PrefixedQuotedTexts

LoadsIdle ==
    /\ obj = None
    /\ advanced = FALSE
    /\ dumped = <<>>
    /\ dump_err = ""
    /\ loaded = Raises("", 0)
    /\ redumped = <<>>
    /\ lpc = "idle"

LoadsInit ==
    /\ loaded = Raises("", 0)
    /\ redumped = <<>>
    /\ dump_err = ""
    /\ \/ /\ obj \in LoadsTrees \cup UnsupportedTrees
          /\ advanced \in BOOLEAN
          /\ dumped = <<>>
          /\ lpc = "tree"
       \/ /\ obj = None
          /\ advanced = FALSE
          /\ dumped \in LoadsTexts
          /\ lpc = "text"

\* dumped = dumps(obj, advanced=advanced)
Dumps ==
    LET r == dumps(obj, advanced)
    IN  /\ lpc = "tree"
        /\ dumped' = r.val
        /\ dump_err' = r.err
        /\ lpc' = IF r.ok THEN "dumped" ELSE "dump_raised"
        /\ UNCHANGED <<obj, advanced, loaded, redumped>>
        /\ UNCHANGED <<pvars, svars, xvars>>

\* loaded = loads(dumped)
Loads ==
    /\ lpc \in {"dumped", "text"}
    /\ loaded' = loads(dumped)
    /\ lpc' = "loaded"
    /\ UNCHANGED <<obj, advanced, dumped, dump_err, redumped>>
    /\ UNCHANGED <<pvars, svars, xvars>>

\* redumped = dumps(loaded)
Redump ==
    /\ lpc = "loaded"
    /\ loaded.ok
    /\ redumped' = dumps(loaded.val, FALSE).val
    /\ dump_err' = dumps(loaded.val, FALSE).err
    /\ lpc' = IF dumps(loaded.val, FALSE).ok THEN "redumped" ELSE "dump_raised"
    /\ UNCHANGED <<obj, advanced, dumped, loaded>>
    /\ UNCHANGED <<pvars, svars, xvars>>

LoadsNext ==
    \/ Dumps
    \/ Loads
    \/ Redump

(***************************************************************************)
(* sexp.printer: the advanced printer.                                     *)
(***************************************************************************)

\* The characters _is_symbol refuses: ( ) " | # ; space, tab, CR, LF.
SymbolBreakers ==
    {LPAREN, RPAREN, DQUOTE, PIPE, HASH, SEMICOLON, SPACE, TAB, CR, NEWLINE}

_is_symbol(str) ==
    /\ str # <<>>
    /\ \A i \in 1..Len(str) : str[i] \notin SymbolBreakers

\* string.printable: digits, letters, punctuation and the whitespace
\* space, tab, LF, CR, VT, FF.
StringPrintable == (32..126) \cup {TAB, NEWLINE, CR, 11, 12}

_is_printable(str) ==
    \A i \in 1..Len(str) :
        /\ str[i] \notin {DQUOTE, BACKSLASH, NEWLINE, CR, TAB}
        /\ str[i] \in StringPrintable

\* str.replace(c, r) for a single character c.
RECURSIVE Replace(_, _, _)
Replace(str, c, r) ==
    IF str = <<>> THEN <<>>
    ELSE (IF Head(str) = c THEN r ELSE <<Head(str)>>) \o Replace(Tail(str), c, r)

_quote(str) ==
    LET s1 == Replace(str, BACKSLASH, <<BACKSLASH, BACKSLASH>>)
        s2 == Replace(s1, DQUOTE, <<BACKSLASH, DQUOTE>>)
        s3 == Replace(s2, NEWLINE, <<BACKSLASH, 110>>)
        s4 == Replace(s3, CR, <<BACKSLASH, 114>>)
        s5 == Replace(s4, TAB, <<BACKSLASH, 116>>)
    IN  <<DQUOTE>> \o s5 \o <<DQUOTE>>

\* The character of the base64 alphabet that stands for n.
Base64Char(n) ==
    IF n < 26 THEN 65 + n
    ELSE IF n < 52 THEN 71 + n
    ELSE IF n < 62 THEN n - 4
    ELSE IF n = 62 THEN 43
    ELSE 47

\* base64.b64encode(data).decode("ascii")
RECURSIVE b64encode(_)
b64encode(data) ==
    IF data = <<>> THEN <<>>
    ELSE IF Len(data) = 1
    THEN <<Base64Char(data[1] \div 4), Base64Char((data[1] % 4) * 16), 61, 61>>
    ELSE IF Len(data) = 2
    THEN <<Base64Char(data[1] \div 4),
           Base64Char((data[1] % 4) * 16 + data[2] \div 16),
           Base64Char((data[2] % 16) * 4), 61>>
    ELSE <<Base64Char(data[1] \div 4),
           Base64Char((data[1] % 4) * 16 + data[2] \div 16),
           Base64Char((data[2] % 16) * 4 + data[3] \div 64),
           Base64Char(data[3] % 64)>>
         \o b64encode(SubSeq(data, 4, Len(data)))

\* What _write_adv writes for an atom.
WriteAdvAtom(nd, st) ==
    LET decoded == Utf8Decode(nd.v)
        min_len == IF st.prefer_base64_min_len = 0 THEN 48
                   ELSE st.prefer_base64_min_len
    IN  IF nd.k = "str"
        THEN IF _is_symbol(nd.v) THEN nd.v ELSE _quote(nd.v)
        ELSE IF decoded.ok /\ _is_printable(decoded.v) THEN _quote(decoded.v)
        ELSE IF Len(nd.v) >= min_len
        THEN <<PIPE>> \o b64encode(nd.v) \o <<PIPE>>
        ELSE <<HASH>> \o HexOfBytes(nd.v) \o <<HASH>>

\* What _write_adv(node, out, settings, depth) writes, and its loop over
\* node.items from the i-th (counted from 1) on.
RECURSIVE _write_adv(_, _, _)
RECURSIVE WriteAdvItems(_, _, _, _)
WriteAdvItems(items, st, depth, i) ==
    LET indent == st.pretty_indent
        it == items[i]
        step == IF indent = <<>> THEN 0 ELSE indent[1]
    IN  IF i > Len(items) THEN <<>>
        ELSE (IF i > 1 THEN <<SPACE>> ELSE <<>>)
             \o (IF indent # <<>> /\ it.k = "list" /\ it.v # <<>>
                 THEN <<NEWLINE>> \o [j \in 1..(depth + indent[1]) |-> SPACE]
                 ELSE <<>>)
             \o _write_adv(it, st, depth + step)
             \o WriteAdvItems(items, st, depth, i + 1)

_write_adv(nd, st, depth) ==
    IF nd.k = "list"
    THEN <<LPAREN>> \o WriteAdvItems(nd.v, st, depth, 1) \o <<RPAREN>>
    ELSE WriteAdvAtom(nd, st)

dumps_advanced(nd, st) == _write_adv(nd, st, 0)

\* The atoms and trees handed to dumps_advanced: strs over a letter, a
\* digit, $, the space, the double quote, the backslash, LF, the control
\* characters 1 and 127 and a character above 127; bytes that are printable
\* text, other text and no text; lists of some of them, one level nested.
AdvStrChars == {97, 49, 36, SPACE, DQUOTE, BACKSLASH, NEWLINE, 1, 127, 233}

AdvAtoms ==
    {SexpAtom("str", v) : v \in SeqsUpTo(AdvStrChars, MaxStrLen)}
    \cup {SexpAtom("bytes", b) : b \in SeqsUpTo({97, 11, NEWLINE, 233}, MaxStrLen)}

AdvTrees ==
    LET few == {SexpAtom("str", <<97>>), SexpAtom("str", <<97, SPACE>>),
                SexpAtom("bytes", <<233>>)}
        inner == {SexpList(items) : items \in SeqsUpTo(few, 1)}
    IN  AdvAtoms \cup {SexpList(items) : items \in SeqsUpTo(few \cup inner, MaxItems)}

AdvSettings ==
    [pretty_indent : {<<>>, <<0>>, <<2>>}, prefer_base64_min_len : {0, 1, 48}]

AdvancedInit ==
    /\ node \in AdvTrees
    /\ settings \in AdvSettings
    /\ other = None
    /\ out = <<>>
    /\ out_other = <<>>
    /\ out_adv = <<>>
    /\ ppc = "adv_start"

\* out_adv = dumps_advanced(node, settings)
DumpsAdvanced ==
    /\ ppc = "adv_start"
    /\ out_adv' = dumps_advanced(node, settings)
    /\ ppc' = "adv_done"
    /\ UNCHANGED <<node, other, out, out_other, settings>>
    /\ UNCHANGED <<svars, lvars, xvars>>

(***************************************************************************)
(* tests/sexp/test_gen.py: check_balanced_parentheses.                     *)
(***************************************************************************)

\* re.match(r"([0-9]+):", s[i:]): whether it matches, and the digits it
\* matched.
VerbatimHeader(str, i) ==
    LET RECURSIVE DigitsEnd(_)
        DigitsEnd(j) ==
            IF j < Len(str) /\ str[j + 1] \in AsciiDigitChars
            THEN DigitsEnd(j + 1) ELSE j
        e == DigitsEnd(i)
    IN  [ok |-> e > i /\ e < Len(str) /\ str[e + 1] = COLON,
         length_str |-> Slice(str, i, e)]

\* A loop over a quoted string that takes the backslash for any other
\* character: the index of the next double quote from j on.
RECURSIVE QuotedLoopNoEscape(_, _)
QuotedLoopNoEscape(str, j) ==
    IF j >= Len(str) THEN j
    ELSE IF str[j + 1] = DQUOTE THEN j
    ELSE QuotedLoopNoEscape(str, j + 1)

\* The inner loop of check_balanced_parentheses, begun at index j: the
\* index it ends at, that of the closing double quote or one past the end
\* of s.
RECURSIVE QuotedLoop(_, _)
QuotedLoop(str, j) ==
    IF j >= Len(str) THEN j
    ELSE IF str[j + 1] = BACKSLASH THEN QuotedLoop(str, j + 2)
    ELSE IF str[j + 1] = DQUOTE THEN j
    ELSE QuotedLoop(str, j + 1)

\* The outer loop of check_balanced_parentheses at index i with the
\* balance so far: what the function returns.
RECURSIVE BalancedLoop(_, _, _)
BalancedLoop(str, i, balance) ==
    LET char == str[i + 1]
        match == VerbatimHeader(str, i)
        header_len == Len(match.length_str) + 1
        after == IF char = LPAREN THEN balance + 1
                 ELSE IF char = RPAREN THEN balance - 1
                 ELSE balance
    IN  IF i >= Len(str) THEN balance = 0
        ELSE IF char \in DigitChars /\ match.ok
        THEN BalancedLoop(str, i + header_len + IntOf(match.length_str), balance)
        ELSE IF char = DQUOTE
        THEN BalancedLoop(str, QuotedLoop(str, i + 1) + 1, balance)
        ELSE IF after < 0 THEN FALSE
        ELSE BalancedLoop(str, i + 1, after)

check_balanced_parentheses(str) == BalancedLoop(str, 0, 0)

\* The strs handed to check_balanced_parentheses: at most MaxBalancedLen
\* characters out of ( ) " \ 1 2 : a
MaxBalancedLen == 4

BalancedChars == {LPAREN, RPAREN, DQUOTE, BACKSLASH, 49, 50, COLON, 97}

BalancedIdle ==
    /\ cbp_s = <<>>
    /\ cbp_ret = FALSE
    /\ cbp_pc = "idle"

BalancedInit ==
    /\ cbp_s \in SeqsUpTo(BalancedChars, MaxBalancedLen)
    /\ cbp_ret = FALSE
    /\ cbp_pc = "call"

\* cbp_ret = check_balanced_parentheses(cbp_s)
CheckBalancedParentheses ==
    /\ cbp_pc = "call"
    /\ cbp_ret' = check_balanced_parentheses(cbp_s)
    /\ cbp_pc' = "returned"
    /\ UNCHANGED cbp_s
    /\ UNCHANGED <<pvars, svars, lvars, fvars, ivars>>

(***************************************************************************)
(* s_expression: parse_sexpressions_from_file.                             *)
(***************************************************************************)

\* The values of the files of the model, as they are written and as they
\* parse: a, b, (a), (a b).
FileValues ==
    { [s |-> <<97>>, v |-> Str(<<97>>)],
      [s |-> <<98>>, v |-> Str(<<98>>)],
      [s |-> <<LPAREN, 97, RPAREN>>, v |-> List(<<Str(<<97>>)>>)],
      [s |-> <<LPAREN, 97, SPACE, 98, RPAREN>>,
       v |-> List(<<Str(<<97>>), Str(<<98>>)>>)] }

\* What follows the last value of a file: nothing, whitespace, a comment
\* with and without the end of its line.
FileTrailers ==
    { <<>>, <<SPACE>>, <<NEWLINE>>, <<SPACE, SEMICOLON, 99>>,
      <<SPACE, SEMICOLON, 99, NEWLINE>> }

\* The values of items, a space after each but the last, and trail.
RECURSIVE FileContent(_, _)
FileContent(items, trail) ==
    IF items = <<>> THEN trail
    ELSE Head(items).s
         \o (IF Len(items) > 1 THEN <<SPACE>> ELSE <<>>)
         \o FileContent(Tail(items), trail)

\* The values of items as parse returns them.
FileEntries(items) == [i \in 1..Len(items) |-> items[i].v]

\* What f.read() returns for the files of the model.
FileContents ==
    {FileContent(items, trail) :
        items \in SeqsUpTo(FileValues, MaxItems), trail \in FileTrailers}
    \cup TerminationTexts

FileIdle ==
    /\ sexpressions = <<>>
    /\ fpc = "idle"

\* parser = SExpressionParser(content); sexpressions = []
FileInit ==
    /\ variant = "s_expression"
    /\ input \in FileContents
    /\ text = Strip(input)
    /\ index = 0
    /\ stack = <<>>
    /\ pc = "file_loop"
    /\ val = None
    /\ err = ""
    /\ sexpressions = <<>>
    /\ fpc = "file"

\* The test of the while loop: the call of parser.parse(), or the return
\* of sexpressions.
FileWhile ==
    /\ fpc = "file"
    /\ pc = "file_loop"
    /\ pc' = IF index < Len(text) THEN "new" ELSE "file_returned"
    /\ UNCHANGED <<variant, input, text, index, stack, val, err>>
    /\ UNCHANGED fvars
    /\ UNCHANGED <<pvars, lvars, bvars, ivars>>

\* sexpressions.append(parser.parse()), parse having returned val.
FileAppend ==
    /\ fpc = "file"
    /\ pc = "done"
    /\ Len(sexpressions) < MaxCollected
    /\ sexpressions' = Append(sexpressions, val)
    /\ pc' = "file_loop"
    /\ UNCHANGED <<variant, input, text, index, stack, val, err>>
    /\ UNCHANGED fpc
    /\ UNCHANGED <<pvars, lvars, bvars, ivars>>

(***************************************************************************)
(* sexp._backend: iterparse.  The pure Python branch is the code of        *)
(* _backend.py and sexp/parser.py; sexp._native is not among the sources,  *)
(* and its IterParser follows the incremental parser of the specification: *)
(* a buffer, a consumed offset, and for each chunk fed the values that are *)
(* complete, or the signal that more data is needed, or an error.          *)
(***************************************************************************)

\* The names sexp/parser.py defines at module level.
PyParserNames ==
    {"loads", "load", "_dumps_canonical", "_dumps_advanced", "dumps",
     "dumps_roundtrip", "dump"}

\* The extraction of one value from buf at offset i, and of the items of
\* a list up to its ')': complete with the value and the offset after it,
\* incomplete, or error.
RECURSIVE IterValue(_, _)
RECURSIVE IterItems(_, _, _)
IterValue(buf, i) ==
    LET j == _consume_while(buf, i, SpaceChars)
        e == _consume_while(buf, j, AlphaChars)
    IN  IF j >= Len(buf) THEN [kind |-> "incomplete"]
        ELSE IF buf[j + 1] = LPAREN THEN IterItems(buf, j + 1, <<>>)
        ELSE IF e = j THEN [kind |-> "error"]
        ELSE IF e >= Len(buf) THEN [kind |-> "incomplete"]
        ELSE [kind |-> "complete", val |-> SexpAtom("str", Slice(buf, j, e)),
              idx |-> e]

IterItems(buf, i, acc) ==
    LET j == _consume_while(buf, i, SpaceChars)
        item == IterValue(buf, j)
    IN  IF j >= Len(buf) THEN [kind |-> "incomplete"]
        ELSE IF buf[j + 1] = RPAREN
        THEN [kind |-> "complete", val |-> SexpList(acc), idx |-> j + 1]
        ELSE IF item.kind # "complete" THEN item
        ELSE IterItems(buf, item.idx, Append(acc, item.val))

\* What is done for a chunk once it is in the buffer: every complete value
\* from the consumed offset on is yielded and consumed with the whitespace
\* after it; then more data is needed, or the prefix is in error.
RECURSIVE IterDrain(_, _, _)
IterDrain(buf, c, ys) ==
    LET r == IterValue(buf, c)
    IN  IF r.kind = "complete"
        THEN IterDrain(buf, _consume_while(buf, r.idx, SpaceChars),
                       Append(ys, r.val))
        ELSE [consumed |-> c, yielded |-> ys,
              signal |-> IF r.kind = "incomplete" THEN "need_more" ELSE "error"]

\* The chunks of the sources of the model: (a b  )  (a b)  (a)<space>  (b)
\* and a<space>
IterChunks ==
    { <<LPAREN, 97, SPACE, 98>>, <<RPAREN>>,
      <<LPAREN, 97, SPACE, 98, RPAREN>>, <<LPAREN, 97, RPAREN, SPACE>>,
      <<LPAREN, 98, RPAREN>>, <<97, SPACE>> }

IterIdle ==
    /\ native_ok = FALSE
    /\ it_settings = <<>>
    /\ chunks = <<>>
    /\ fed = 0
    /\ consumed = 0
    /\ yielded = <<>>
    /\ signal = ""
    /\ it_err = ""
    /\ ipc = "idle"

IterInit ==
    /\ native_ok \in BOOLEAN
    /\ it_settings \in {<<>>, <<DefaultSettings>>}
    /\ chunks \in SeqsUpTo(IterChunks, MaxItems)
    /\ fed = 0
    /\ consumed = 0
    /\ yielded = <<>>
    /\ signal = ""
    /\ it_err = ""
    /\ ipc = "call"

\* iterparse(source, settings): the IterParser of sexp._native, or the
\* attribute iterparse of sexp.parser, which raises AttributeError where
\* the module defines no such name.
IterParse ==
    /\ ipc = "call"
    /\ IF native_ok /\ it_settings = <<>>
       THEN ipc' = "iterating" /\ it_err' = ""
       ELSE IF "iterparse" \in PyParserNames
       THEN ipc' = "iterating" /\ it_err' = ""
       ELSE ipc' = "raised" /\ it_err' = "AttributeError"
    /\ UNCHANGED <<native_ok, it_settings, chunks, fed, consumed, yielded, signal>>
    /\ UNCHANGED <<pvars, svars, lvars, bvars, fvars>>

\* The next chunk of the source is fed to the IterParser.
IterFeed ==
    /\ ipc = "iterating"
    /\ fed < Len(chunks)
    /\ signal # "error"
    /\ LET buf == Concat(SubSeq(chunks, 1, fed + 1))
           d == IterDrain(buf, consumed, yielded)
       IN  /\ consumed' = d.consumed
           /\ yielded' = d.yielded
           /\ signal' = d.signal
    /\ fed' = fed + 1
    /\ UNCHANGED <<native_ok, it_settings, chunks, it_err, ipc>>
    /\ UNCHANGED <<pvars, svars, lvars, bvars, fvars>>

\* The programs of the other sections when they are not called.
ExtraIdle == BalancedIdle /\ FileIdle /\ IterIdle

(***************************************************************************)
(* Properties of the advanced printer, under SpecAdvanced.                 *)
(***************************************************************************)

\* C19: dumps_advanced writes a str atom as it is exactly when its value
\* matches the token grammar, and between double quotes otherwise.
C19_UnquotedOnlyIfToken ==
    (ppc = "adv_done" /\ node.k = "str")
        => IF GrammarToken(node.v) THEN out_adv = node.v
           ELSE /\ Len(out_adv) >= 2
                /\ out_adv[1] = DQUOTE
                /\ out_adv[Len(out_adv)] = DQUOTE

\* Whether str, from the i-th character on, holds no control character
\* and no double quote or backslash outside an escape sequence (a
\* backslash and the character after it).
RECURSIVE FullyEscaped(_, _)
FullyEscaped(str, i) ==
    IF i > Len(str) THEN TRUE
    ELSE IF str[i] = BACKSLASH THEN i < Len(str) /\ FullyEscaped(str, i + 2)
    ELSE /\ str[i] # DQUOTE
         /\ str[i] >= 32
         /\ str[i] # 127
         /\ FullyEscaped(str, i + 1)

\* C20: what dumps_advanced writes between the quotes of a quoted atom
\* holds no raw control character and no double quote or backslash that
\* is not part of an escape sequence.
C20_QuotedOutputEscaped ==
    (ppc = "adv_done" /\ node.k \in {"str", "bytes"} /\ out_adv[1] = DQUOTE)
        => FullyEscaped(SubSeq(out_adv, 2, Len(out_adv) - 1), 1)

\* C21: for a bytes atom of L bytes that is not printable text and
\* prefer_base64_min_len = T, dumps_advanced writes the hexadecimal form
\* between '#' when L < T and the base64 form between '|' when L >= T.
C21_HexOrBase64ByThreshold ==
    LET decoded == Utf8Decode(node.v)
        T == settings.prefer_base64_min_len
    IN  (/\ ppc = "adv_done"
         /\ node.k = "bytes"
         /\ ~(decoded.ok /\ _is_printable(decoded.v)))
            => IF Len(node.v) < T
               THEN out_adv = <<HASH>> \o HexOfBytes(node.v) \o <<HASH>>
               ELSE out_adv = <<PIPE>> \o b64encode(node.v) \o <<PIPE>>

(***************************************************************************)
(* Properties of check_balanced_parentheses, under SpecBalanced.           *)
(***************************************************************************)

\* The index of the double quote that closes a quoted region entered
\* before index j, a backslash hiding the character after it; an index
\* past the end where nothing closes it.
RECURSIVE ClosingQuote(_, _)
ClosingQuote(str, j) ==
    IF j >= Len(str) THEN j
    ELSE IF str[j + 1] = DQUOTE THEN j
    ELSE ClosingQuote(str, IF str[j + 1] = BACKSLASH THEN j + 2 ELSE j + 1)

\* The characters of str from index i on that are outside verbatim
\* payloads (digits, a colon and as many characters as the digits say) and
\* outside double-quoted regions.
RECURSIVE Outside(_, _)
Outside(str, i) ==
    LET ns == {n \in 1..(Len(str) - i - 1) :
                  /\ \A k \in 1..n : str[i + k] \in 48..57
                  /\ str[i + n + 1] = COLON}
        n == CHOOSE n \in ns : TRUE
    IN  IF i >= Len(str) THEN <<>>
        ELSE IF ns # {}
        THEN Outside(str, i + n + 1 + IntOf(SubSeq(str, i + 1, i + n)))
        ELSE IF str[i + 1] = DQUOTE
        THEN Outside(str, ClosingQuote(str, i + 1) + 1)
        ELSE <<str[i + 1]>> \o Outside(str, i + 1)

\* The number of '(' less the number of ')' in cs.
Depth(cs) ==
    Cardinality({k \in 1..Len(cs) : cs[k] = LPAREN})
    - Cardinality({k \in 1..Len(cs) : cs[k] = RPAREN})

\* C30: check_balanced_parentheses(s) returns True exactly when, over the
\* characters of s outside verbatim payloads and quoted regions, the count
\* of '(' less ')' is never negative and is zero at the end.
C30_BalancedOutsideRegions ==
    LET scanned == Outside(cbp_s, 0)
    IN  cbp_pc = "returned"
            => (cbp_ret <=> /\ \A k \in 0..Len(scanned) :
                                  Depth(SubSeq(scanned, 1, k)) >= 0
                            /\ Depth(scanned) = 0)

C30_Witness ==
    /\ cbp_s = <<DQUOTE, BACKSLASH, DQUOTE, RPAREN>>
    /\ cbp_pc = "returned"
    /\ cbp_ret = TRUE

(***************************************************************************)
(* Properties of sexp.parser, under SpecLoads.                             *)
(***************************************************************************)

\* C2: canonical round trip: for every tree obj of strs and lists,
\* loads(dumps(obj)) returns a tree equal to obj.
C2_CanonicalRoundTrip ==
    (obj \in LoadsTrees /\ ~advanced /\ lpc \in {"loaded", "redumped"})
        => (loaded.ok /\ loaded.val = obj)

\* C4: advanced then canonical: for every tree obj of strs and lists,
\* loads accepts dumps(obj, advanced=True) and dumps of what it returns
\* equals dumps(obj).
C4_AdvancedThenCanonical ==
    (obj \in LoadsTrees /\ advanced /\ lpc \in {"loaded", "redumped"})
        => /\ loaded.ok
           /\ lpc = "redumped" => redumped = dumps(obj, FALSE).val

\* C6: loads raises ValueError for a text that holds one complete value
\* followed by further content that is not whitespace.
C6_TrailingDataRejected ==
    (dumped \in TrailingTexts /\ lpc = "loaded")
        => (~loaded.ok /\ loaded.err = "ValueError")

\* The text of the bytes b where they are UTF-8, and b itself otherwise.
TextOrRawBytes(b) ==
    IF Utf8Decode(b).ok THEN Str(Utf8Decode(b).v) ELSE Bytes(b)

\* C11: loads returns for a hexadecimal atom, which visit_hexadecimal
\* decodes, the text of the decoded bytes where they are UTF-8 and the
\* decoded bytes themselves otherwise: no byte is replaced or dropped.
C11_BinaryPayloadUnaltered ==
    \A b \in SeqsUpTo(BinaryBytes, MaxStrLen) :
        (dumped = <<HASH>> \o HexOfBytes(b) \o <<HASH>> /\ lpc = "loaded")
            => (loaded.ok /\ loaded.val = TextOrRawBytes(b))

\* C12: loads raises ValueError for a verbatim atom that declares more
\* characters than follow its colon, e.g. 5:abcd.
C12_ShortVerbatimRaises ==
    (dumped \in ShortVerbatimTexts /\ lpc = "loaded")
        => (~loaded.ok /\ loaded.err = "ValueError")

\* C13: loads raises ValueError for a hexadecimal atom with an odd number
\* of digits, e.g. #616#; it does not return the text as a token.
C13_DecodeErrorRaises ==
    (dumped \in OddHexTexts /\ lpc = "loaded")
        => (~loaded.ok /\ loaded.err = "ValueError")

\* C26: in a quoted string a backslash before CR, LF, CR LF or LF CR
\* gives no character, and the string decodes to what the same string
\* without the backslash and the line break decodes to.
C26_LineContinuationElided ==
    \A pre \in AroundContinuation, cont \in Continuations,
       post \in AroundContinuation :
        (dumped = ContinuationText(pre, cont, post) /\ lpc = "loaded")
            => /\ loaded.ok
               /\ loaded.val
                    = loads(<<DQUOTE>> \o pre \o post \o <<DQUOTE>>).val

\* C27: a quoted string with a length before it, N"...", is accepted
\* exactly when N is the number of bytes of its content, a printable
\* character and an escape sequence being one byte each; otherwise
\* ValueError is raised.
C27_DeclaredLengthIsByteCount ==
    \A n \in 0..(MaxStrLen + 1), units \in SeqsUpTo(QuotedUnits, MaxStrLen) :
        (dumped = PrefixedQuotedText(n, units) /\ lpc = "loaded")
            => /\ loaded.ok <=> n = Len(units)
               /\ ~loaded.ok => loaded.err = "ValueError"

\* C22: dumps, canonical or advanced, of an object that is no str, bool or
\* list, or of a list that holds such an object at any depth, raises
\* TypeError and returns no text.
C22_UnsupportedRaisesTypeError ==
    [][(lpc = "tree" /\ obj \in UnsupportedTrees)
           => (lpc' = "dump_raised" /\ dump_err' = "TypeError" /\ dumped' = <<>>)]_vars

C22_Witness ==
    /\ obj = List(<<Str(<<97>>), List(<<Str(<<97>>), Bytes(<<98>>)>>)>>)
    /\ lpc = "dump_raised"
    /\ dump_err = "TypeError"
    /\ dumped = <<>>

(***************************************************************************)
(* Properties of SExpressionParser, under SpecParser.                      *)
(***************************************************************************)
Halted == pc \in {"done", "raised"}

\* The decoders of SExpressionParser do fall back to the decoded bytes.
ParserBinaryPayloadUnaltered ==
    \A b \in SeqsUpTo(BinaryBytes, MaxStrLen) :
        (b # <<>> /\ input = <<HASH>> \o HexOfBytes(b) \o <<HASH>> /\ pc = "done")
            => val = TextOrRawBytes(b)

\* k:payload, k being the length of the payload's UTF-8 encoding.
VerbatimOf(payload) ==
    StrOfInt(Len(Utf8Encode(payload))) \o <<COLON>> \o payload

\* C3: the length of a verbatim string counts bytes: the parser of se reads
\* k:payload, k being the length of the payload's UTF-8 encoding, as the
\* payload and ends right after it.
C3_VerbatimLengthInBytes ==
    \A payload \in SeqsUpTo({97, 233}, MaxContentLen) :
        (variant = "se" /\ input = VerbatimOf(payload) /\ Halted)
            => (pc = "done" /\ val = Str(payload) /\ index = Len(text))

\* C7: when the loop of _parse_list finds the end of the input where an
\* item or ")" should be, the parser raises.
C7_UnclosedListRaises ==
    [][(pc = "list_loop" /\ _peek(text, index).ch = <<>>)
            => pc' = "raised"]_vars

\* C8: when the loop of _parse_quoted_string of s_expression finds the end
\* of the input where a character or the closing quote should be, the
\* parser raises ValueError.
C8_UnterminatedQuotedStringRaises ==
    [][(variant = "s_expression" /\ pc = "quoted_string_loop"
            /\ _peek(text, index).ch = <<>>)
            => (pc' = "raised" /\ err' = "ValueError")]_vars

\* (a "b c" d) and the value it stands for.
QuotedExample ==
    <<LPAREN, 97, SPACE, DQUOTE, 98, SPACE, 99, DQUOTE, SPACE, 100, RPAREN>>

QuotedExampleValue == List(<<Str(<<97>>), Str(<<98, SPACE, 99>>), Str(<<100>>)>>)

\* C9: a quoted string of printable characters other than the double quote
\* and the backslash parses to exactly those characters, spaces and ";"
\* among them, and (a "b c" d) parses to [a, b c, d].
C9_QuotedContentPreserved ==
    /\ \A c \in SeqsUpTo({97, SPACE, SEMICOLON}, MaxContentLen) :
            (input = <<DQUOTE>> \o c \o <<DQUOTE>> /\ Halted)
                => (pc = "done" /\ val = Str(c))
    /\ (input = QuotedExample /\ Halted)
            => (pc = "done" /\ val = QuotedExampleValue)

\* C10: the parser of se returns every text that matches the token grammar
\* whole, with the cursor at its end.
C10_TokenParsesToItself ==
    (variant = "se" /\ GrammarToken(input) /\ Halted)
        => (pc = "done" /\ val = Str(input) /\ index = Len(text))

\* C14: on a text that is empty or holds only whitespace and comments the
\* parser raises and returns no value.
C14_EmptyInputRaises ==
    (input \in EmptyTexts /\ Halted) => pc = "raised"

TokenList(items) == List([i \in 1..Len(items) |-> Str(items[i])])

\* C16: comments act as whitespace: a list of tokens parses to the list of
\* those tokens whether a space, a comment or both stand before each, and a
\* token after a comment parses to the token; the parser does not run into
\* the end of the text inside the list.
C16_CommentsAreWhitespace ==
    /\ \A items \in SeqsUpTo({<<97>>, <<98>>}, MaxItems) :
        \A gaps \in [1..Len(items) -> Gaps] :
            input = RenderList(items, gaps)
                => /\ Halted => (pc = "done" /\ val = TokenList(items))
                   /\ ~(pc = "list_loop" /\ _peek(text, index).ch = <<>>)
    /\ (input \in {Comment \o <<97>>, <<SPACE>> \o Comment \o <<SPACE, 97>>}
            /\ Halted) => (pc = "done" /\ val = Str(<<97>>))

\* ( a ;c<newline>b) has been parsed to [a, b].
C16_Witness ==
    /\ input = RenderList(<<(<<97>>), (<<98>>)>>, <<(<<SPACE>>), (<<SPACE>> \o Comment)>>)
    /\ pc = "done"
    /\ val = TokenList(<<(<<97>>), (<<98>>)>>)

\* C17: a well-formed list parses to the list of the parses of its items,
\* as many as it has and in their order, nested lists nested alike and ()
\* the empty list; (a b c) parses to [a, b, c].  The parser does not run
\* into the end of the text inside the list.
C17_ListStructureAndOrder ==
    /\ \A tr \in NestedTrees :
            input = RenderTree(tr)
                => /\ Halted => (pc = "done" /\ val = tr)
                   /\ ~(pc = "list_loop" /\ _peek(text, index).ch = <<>>)
    /\ (input = <<LPAREN, 97, SPACE, 98, SPACE, 99, RPAREN>> /\ Halted)
            => (pc = "done" /\ val = TokenList(<<(<<97>>), (<<98>>), (<<99>>)>>))

\* ((a b) b) has been parsed to [[a, b], b].
C17_Witness ==
    /\ input = <<LPAREN, LPAREN, 97, SPACE, 98, RPAREN, SPACE, 98, RPAREN>>
    /\ pc = "done"
    /\ val = List(<<TokenList(<<(<<97>>), (<<98>>)>>), Str(<<98>>)>>)

\* C18: the parser of se reads a hexadecimal atom whose digit pairs are
\* separated by a space, e.g. #61 62#, as it reads the atom without the
\* space: the text of the decoded bytes.
C18_HexAllowsWhitespace ==
    \A p \in HexPairs, q \in HexPairs :
        (variant = "se" /\ input = <<HASH>> \o p \o <<SPACE>> \o q \o <<HASH>>
            /\ Halted)
            => (pc = "done" /\ val = TextOrRawBytes(FromHex(p \o q)))

\* C23: a call of _peek leaves the index where it was: in the test of the
\* loop of _parse_list, which calls _peek and, unless it returned ')',
\* goes on to _parse_sexpr, the index does not change.
C23_PeekDoesNotAdvance ==
    [][(pc = "list_loop" /\ pc' = "sexpr") => index' = index]_vars

OpenQuotedStringLoops ==
    [][(pc = "quoted_string_loop" /\ index >= Len(text))
           => (pc' = "quoted_string_loop" /\ index' > index)]_vars

\* C29: in every state of a parse the index is between 0 and the length
\* of the text.
C29_CursorWithinText ==
    pc # "idle" => (0 <= index /\ index <= Len(text))

\* Under SpecIter.  C24: iterparse fed the incomplete prefix (a b yields no
\* value, signals that more data is needed, raises nothing and consumes
\* nothing; fed ) after it, it yields the list of a and b; and the values
\* of a source are yielded in the order of the source.
C24_IncompleteIsNotAnError ==
    LET a == SexpAtom("str", <<97>>)
        b == SexpAtom("str", <<98>>)
    IN  /\ (chunks = <<<<LPAREN, 97, SPACE, 98>>, <<RPAREN>>>> /\ ipc # "call")
            => /\ ipc = "iterating"
               /\ fed = 1 => (yielded = <<>> /\ signal = "need_more"
                                /\ consumed = 0)
               /\ fed = 2 => yielded = <<SexpList(<<a, b>>)>>
        /\ (chunks = <<<<LPAREN, 97, RPAREN, SPACE>>, <<LPAREN, 98, RPAREN>>>>
                /\ ipc = "iterating")
            => /\ fed = 1 => yielded = <<SexpList(<<a>>)>>
               /\ fed = 2 => yielded = <<SexpList(<<a>>), SexpList(<<b>>)>>

\* C28: parse_sexpressions_from_file returns one entry for every top-level
\* value of the content, in the order of the content, and no other entry,
\* whatever whitespace or comment follows the last value; a content that
\* holds no value gives the empty list.
C28_OneEntryPerValue ==
    \A items \in SeqsUpTo(FileValues, MaxItems), trail \in FileTrailers :
        (fpc = "file" /\ input = FileContent(items, trail)
            /\ pc = "file_returned")
            => sexpressions = FileEntries(items)

(***************************************************************************)
(* The specifications.                                                     *)
(***************************************************************************)
PrinterIdle ==
    /\ node = None
    /\ other = None
    /\ out = <<>>
    /\ out_other = <<>>
    /\ ppc = "idle"
    /\ settings = DefaultSettings
    /\ out_adv = <<>>

InitPrinter == PrinterInit /\ ParserIdle /\ LoadsIdle /\ ExtraIdle

NextPrinter == DumpsCanonical

SpecPrinter == InitPrinter /\ [][NextPrinter]_vars

InitParser == ParserInit /\ PrinterIdle /\ LoadsIdle /\ ExtraIdle

SpecParser == InitParser /\ [][ParserNext]_vars

\* The parse of the texts of TerminationTexts; the interpreter goes on
\* running a call that can take a step.
InitTermination == InitParser /\ input \in TerminationTexts

SpecTermination ==
    InitTermination /\ [][ParserNext]_vars /\ WF_vars(ParserNext)

InitLoads == LoadsInit /\ PrinterIdle /\ ParserIdle /\ ExtraIdle

InitAdvanced == AdvancedInit /\ ParserIdle /\ LoadsIdle /\ ExtraIdle

NextAdvanced == DumpsAdvanced

SpecAdvanced == InitAdvanced /\ [][NextAdvanced]_vars

SpecLoads == InitLoads /\ [][LoadsNext]_vars

InitBalanced ==
    BalancedInit /\ PrinterIdle /\ ParserIdle /\ LoadsIdle /\ FileIdle /\ IterIdle

InitFile == FileInit /\ PrinterIdle /\ LoadsIdle /\ BalancedIdle /\ IterIdle

NextFile ==
    \/ ParserNext
    \/ FileWhile
    \/ FileAppend

SpecFile == InitFile /\ [][NextFile]_vars

InitIter ==
    IterInit /\ PrinterIdle /\ ParserIdle /\ LoadsIdle /\ BalancedIdle /\ FileIdle

NextIter ==
    \/ IterParse
    \/ IterFeed

SpecIter == InitIter /\ [][NextIter]_vars

NextBalanced == CheckBalancedParentheses

SpecBalanced == InitBalanced /\ [][NextBalanced]_vars
====
